---- MODULE Spec2Model ----
(***************************************************************************)
(* Scheduled-email subsystem of napcat-plugin-email.                       *)
(*                                                                         *)
(* Time is counted in minutes since 1970-01-01T00:00Z.  An ISO-8601        *)
(* string is modelled by the instant `new Date(s).getTime()` denotes       *)
(* (InvalidDate when that is NaN); the local time zone of the process is  *)
(* tz, UTC unless a specification says otherwise.                          *)
(* JavaScript runs handlers to their first suspension point without        *)
(* interleaving, so every action below is one such run: a handler up to    *)
(* its first `await` on the transport, or the continuation after it.       *)
(***************************************************************************)
EXTENDS Integers, Sequences, FiniteSets, TLC

\* ---------------------------------------------------------------- bounds
MaxTime == 2
MaxExec == 2
MaxTasks == 1
MaxUpdates == 1
MaxIntervals == 2
MaxSends == 2
MaxSiblings == 2
MaxPage == 3
MaxMails == 2
MaxAccounts == 3

\* ------------------------------------------------------ program constants
CHECK_INTERVAL == 1
MAX_HISTORY_SIZE == 1000
MinutesPerDay == 24 * 60

\* JS null / undefined in a numeric field, and the NaN time value
Null == -1
Undefined == -2
InvalidDate == -3

ScheduleTypes == {"once", "daily", "weekly", "monthly", "interval"}
Statuses == {"pending", "sent", "failed", "cancelled"}

VARIABLES
    now,              \* wall clock (Date.now()), in minutes
    ctx,              \* PluginState._ctx is non-null
    timers,           \* keys of PluginState.timers
    sinceTick,        \* minutes since the checker last fired, capped at CHECK_INTERVAL
    scheduledEmails,  \* contents of scheduled_emails.json (array of tasks)
    history,          \* EmailHistoryService.history, newest first
    execs,            \* calls of executeScheduledEmail awaiting sendEmail, in order of dispatch
    dispatched,       \* number of calls of executeScheduledEmail so far
    idCounter,        \* number of ids generated so far
    updates,          \* number of update calls so far
    intervals,        \* number of active setInterval timers running the checker
    sends,            \* manual and test sends awaiting the transport, in order of request
    requests,         \* number of manual and test sends requested so far
    tz,               \* the time zone of the process (TZ), fixed while it runs
    reply,            \* the last result a caller of the plugin was handed
    taskFile,         \* condition of scheduled_emails.json on disk
    taskWritable,     \* writing scheduled_emails.json succeeds
    historyWritable,  \* writing email_history.json succeeds
    config,           \* PluginState.config: the SMTP settings and the accounts
    mails             \* calls of sendEmail, in order of call, with their transport calls

vars == <<now, ctx, timers, sinceTick, scheduledEmails, history, execs,
          dispatched, idCounter, updates, intervals, sends, requests, tz,
          reply, taskFile, taskWritable, historyWritable, config, mails>>

Min(a, b) == IF a < b THEN a ELSE b

\* no caller has been handed a result yet
NoReply == [op |-> "none"]

\* the SMTP settings of DEFAULT_CONFIG, without accounts
DEFAULT_CONFIG ==
    [smtp |-> [host |-> "", port |-> 465, user |-> "", pass |-> ""],
     emailAccounts |-> <<>>,
     defaultAccountId |-> ""]

\* ------------------------------------------------------------- Task Store

\* saveDataFile without the failure of the write
saveDataFileAlways(writable, file, data) == data

\* PluginState.saveDataFile: the content of the file after the call; a write
\* that fails is logged and the file keeps its content
saveDataFile(writable, file, data) == IF writable THEN data ELSE file

\* emails.findIndex(e => e.id === id); 0 stands for -1
FindIndex(emails, id) ==
    IF \E i \in 1..Len(emails) : emails[i].id = id
    THEN CHOOSE i \in 1..Len(emails) :
            /\ emails[i].id = id
            /\ \A j \in 1..(i - 1) : emails[j].id # id
    ELSE 0

\* WriteBack adding the task to the store when its id is not found
WriteBackOrAdd(emails, email) ==
    LET index == FindIndex(emails, email.id)
    IN  IF index # 0 THEN [emails EXCEPT ![index] = email] ELSE Append(emails, email)

\* WriteBack putting the task in the first place of the store
WriteBackFirst(emails, email) ==
    LET index == FindIndex(emails, email.id)
    IN  IF index # 0 THEN [emails EXCEPT ![1] = email] ELSE emails

\* const emails = getScheduledEmails(); index = findIndex; if (index !== -1)
\* { emails[index] = email; saveScheduledEmails(emails); }
WriteBack(emails, email) ==
    LET index == FindIndex(emails, email.id)
    IN  IF index # 0 THEN [emails EXCEPT ![index] = email] ELSE emails

\* ------------------------------------------------------ Recurrence Engine

\* days since the epoch of the civil date y-m-d (proleptic Gregorian)
DaysFromCivil(y, m, d) ==
    LET yy  == IF m <= 2 THEN y - 1 ELSE y
        era == yy \div 400
        yoe == yy - era * 400
        mp  == IF m > 2 THEN m - 3 ELSE m + 9
        doy == (153 * mp + 2) \div 5 + d - 1
        doe == yoe * 365 + yoe \div 4 - yoe \div 100 + doy
    IN  era * 146097 + doe - 719468

\* the civil date <<y, m, d>> of a day number
CivilFromDays(z0) ==
    LET z   == z0 + 719468
        era == z \div 146097
        doe == z - era * 146097
        yoe == (doe - doe \div 1460 + doe \div 36524 - doe \div 146096) \div 365
        doy == doe - (365 * yoe + yoe \div 4 - yoe \div 100)
        mp  == (5 * doy + 2) \div 153
        d   == doy - (153 * mp + 2) \div 5 + 1
        m   == IF mp < 10 THEN mp + 3 ELSE mp - 9
        y   == yoe + era * 400 + (IF m <= 2 THEN 1 ELSE 0)
    IN  <<y, m, d>>

\* the zones tried for the process: one without and one with daylight saving
TimeZones == {"UTC", "Europe/London"}

\* 2027-03-28T01:00Z, when Europe/London goes from UTC+0 to UTC+1 (the one
\* change of offset within the times the model reaches)
Transition == DaysFromCivil(2027, 3, 28) * MinutesPerDay + 60

\* minutes the local time of the zone is ahead of UTC at instant t
Offset(zone, t) == IF zone = "Europe/London" /\ t >= Transition THEN 60 ELSE 0

\* the local clock reading (getDate, getMonth, getHours ...) of instant t
ToLocal(zone, t) == t + Offset(zone, t)

\* the instant of a local clock reading; a reading skipped by the change of
\* offset is taken with the offset before the change
ToUTC(zone, l) == IF zone = "Europe/London" /\ l - 60 >= Transition THEN l - 60 ELSE l

\* AddDays on the UTC fields instead of the local ones
AddDaysUTC(t, n) == t + n * MinutesPerDay

\* d.setDate(d.getDate() + n), on the local fields of the date
AddDays(t, n) == ToUTC(tz, ToLocal(tz, t) + n * MinutesPerDay)

\* AddMonth without the carry into the next year after December
AddMonthNoCarry(t) ==
    LET l    == ToLocal(tz, t)
        days == l \div MinutesPerDay
        tod  == l % MinutesPerDay
        c    == CivilFromDays(days)
        m2   == IF c[2] = 12 THEN 1 ELSE c[2] + 1
    IN  ToUTC(tz, (DaysFromCivil(c[1], m2, 1) + c[3] - 1) * MinutesPerDay + tod)

\* d.setMonth(d.getMonth() + 1), on the local fields of the date: the day
\* of month is kept and overflows into the month after when the target
\* month is shorter
AddMonth(t) ==
    LET l    == ToLocal(tz, t)
        days == l \div MinutesPerDay
        tod  == l % MinutesPerDay
        c    == CivilFromDays(days)
        y2   == IF c[2] = 12 THEN c[1] + 1 ELSE c[1]
        m2   == IF c[2] = 12 THEN 1 ELSE c[2] + 1
    IN  ToUTC(tz, (DaysFromCivil(y2, m2, 1) + c[3] - 1) * MinutesPerDay + tod)

\* the interval branch is taken: email.intervalMinutes && email.intervalMinutes > 0
IntervalSet(email) == email.intervalMinutes > 0

\* toISOString() of an invalid Date throws RangeError
NextThrows(email) ==
    /\ email.scheduledAt = InvalidDate
    /\ ~(email.scheduleType = "interval" /\ IntervalSet(email))

\* the day of the week (0 = Sunday) of the local date of instant t
WeekdayOf(t) == ((ToLocal(tz, t) \div MinutesPerDay) + 4) % 7

\* the day of the month of the local date of instant t
DayOf(t) == CivilFromDays(ToLocal(tz, t) \div MinutesPerDay)[3]

\* a next run that moved a weekly task to its configured weekday and a
\* monthly task to its configured day of the month
calculateNextFromFields(email, clock) ==
    CASE email.scheduleType = "daily"   -> AddDays(email.scheduledAt, 1)
      [] email.scheduleType = "weekly"  ->
            IF email.weekday \in 0..6
            THEN LET delta == (email.weekday - WeekdayOf(email.scheduledAt)) % 7
                 IN  AddDays(email.scheduledAt, IF delta = 0 THEN 7 ELSE delta)
            ELSE AddDays(email.scheduledAt, 7)
      [] email.scheduleType = "monthly" ->
            IF email.dayOfMonth \in 1..28
            THEN AddDays(AddMonth(email.scheduledAt),
                         email.dayOfMonth - DayOf(AddMonth(email.scheduledAt)))
            ELSE AddMonth(email.scheduledAt)
      [] email.scheduleType = "interval" ->
            IF IntervalSet(email) THEN clock + email.intervalMinutes
            ELSE email.scheduledAt
      [] OTHER -> email.scheduledAt

\* calculateNextScheduledTime with the interval counted from the previous
\* scheduledAt
calculateNextFromSchedule(email, clock) ==
    CASE email.scheduleType = "daily"   -> AddDays(email.scheduledAt, 1)
      [] email.scheduleType = "weekly"  -> AddDays(email.scheduledAt, 7)
      [] email.scheduleType = "monthly" -> AddMonth(email.scheduledAt)
      [] email.scheduleType = "interval" ->
            IF IntervalSet(email) THEN email.scheduledAt + email.intervalMinutes
            ELSE email.scheduledAt
      [] OTHER -> email.scheduledAt

calculateNextScheduledTime(email, clock) ==
    CASE email.scheduleType = "daily"   -> AddDays(email.scheduledAt, 1)
      [] email.scheduleType = "weekly"  -> AddDays(email.scheduledAt, 7)
      [] email.scheduleType = "monthly" -> AddMonth(email.scheduledAt)
      [] email.scheduleType = "interval" ->
            IF IntervalSet(email) THEN clock + email.intervalMinutes
            ELSE email.scheduledAt
      [] OTHER -> email.scheduledAt

\* 2026-12-31T00:00Z, the instant at which the plugin is initialised
T0 == DaysFromCivil(2026, 12, 31) * MinutesPerDay

\* ---------------------------------------------------------- Scheduler Loop

\* shouldExecute without the comparison with the current time
shouldExecuteAnyTime(email, clock) ==
    ~(email.status = "cancelled" \/ email.status = "sent")

shouldExecute(email, clock) ==
    IF email.status = "cancelled" \/ email.status = "sent" THEN FALSE
    ELSE email.scheduledAt # InvalidDate /\ clock >= email.scheduledAt

\* emails.filter(e => e.status === 'pending' && shouldExecute(e))
IsDue(email, clock) == email.status = "pending" /\ shouldExecute(email, clock)

\* one call of executeScheduledEmail(email): `email` is the object the call
\* was made with, parsed from the file when the call was made
NewExec(email, by) ==
    [id |-> email.id, by |-> by, email |-> email]

RECURSIVE Dispatch(_, _)
Dispatch(pendingEmails, by) ==
    IF pendingEmails = <<>> THEN <<>>
    ELSE LET email == Head(pendingEmails)
         IN  (IF email.status # "pending" THEN <<>> ELSE <<NewExec(email, by)>>)
             \o Dispatch(Tail(pendingEmails), by)

\* the setInterval callback: checkAndExecuteScheduledEmails()
Tick ==
    /\ intervals > 0
    /\ ctx
    /\ sinceTick >= CHECK_INTERVAL
    /\ LET emails == scheduledEmails
           pendingEmails == SelectSeq(emails, LAMBDA e : IsDue(e, now))
       IN  /\ dispatched + Len(pendingEmails) <= MaxExec
           /\ execs' = execs \o Dispatch(pendingEmails, "tick")
           /\ dispatched' = dispatched + Len(pendingEmails)
    /\ sinceTick' = 0
    /\ UNCHANGED <<reply, taskFile, taskWritable, historyWritable, config, mails, tz, sends, requests, intervals, now, ctx, timers, scheduledEmails, history, idCounter, updates>>

\* time passes
Tock ==
    /\ now < T0 + MaxTime
    /\ now' = now + 1
    /\ sinceTick' = Min(sinceTick + 1, CHECK_INTERVAL)
    /\ UNCHANGED <<reply, taskFile, taskWritable, historyWritable, config, mails, tz, sends, requests, intervals, ctx, timers, scheduledEmails, history, execs, dispatched, idCounter, updates>>

\* ------------------------------------------------------------ History Log

HistoryRecord(sendType, status, scheduledEmailId) ==
    [sendType |-> sendType, status |-> status, scheduledEmailId |-> scheduledEmailId]

\* addRecord without the limit on the number of records
addRecordNoLimit(h, record) == <<record>> \o h

\* this.history.unshift(record); slice(0, MAX_HISTORY_SIZE)
addRecord(h, record) ==
    LET all == <<record>> \o h
    IN  IF Len(all) > MAX_HISTORY_SIZE THEN SubSeq(all, 1, MAX_HISTORY_SIZE) ELSE all

Max(a, b) == IF a > b THEN a ELSE b

\* Array.prototype.slice(start, end): a negative index counts from the end
Slice(a, start, end) ==
    LET from == IF start < 0 THEN Max(Len(a) + start, 0) ELSE Min(start, Len(a))
        to   == IF end < 0 THEN Max(Len(a) + end, 0) ELSE Min(end, Len(a))
    IN  IF from < to THEN SubSeq(a, from + 1, to) ELSE <<>>

\* getHistory paginating before it filters
getHistoryPageFirst(h, page, pageSize, sendType, status) ==
    LET start == (page - 1) * pageSize
        paged == Slice(h, start, start + pageSize)
        byType == IF sendType # "undefined"
                  THEN SelectSeq(paged, LAMBDA r : r.sendType = sendType) ELSE paged
        byStatus == IF status # "undefined"
                    THEN SelectSeq(byType, LAMBDA r : r.status = status) ELSE byType
    IN  [list |-> byStatus, total |-> Len(byStatus), page |-> page, pageSize |-> pageSize]

\* getHistory({page, pageSize, sendType, status}); "undefined" marks an
\* omitted filter
getHistory(h, page, pageSize, sendType, status) ==
    LET byType == IF sendType # "undefined"
                  THEN SelectSeq(h, LAMBDA r : r.sendType = sendType) ELSE h
        byStatus == IF status # "undefined"
                    THEN SelectSeq(byType, LAMBDA r : r.status = status) ELSE byType
        start == (page - 1) * pageSize
    IN  [list |-> Slice(byStatus, start, start + pageSize), total |-> Len(byStatus),
         page |-> page, pageSize |-> pageSize]

\* -------------------------------------------------------------- Execution

\* AfterSuccess with the cap compared by > instead of >=
AfterSuccessLateCap(email, clock) ==
    LET e1 == [email EXCEPT !.lastSentAt = clock,
                            !.sendCount = email.sendCount + 1,
                            !.errorMessage = ""]
        e2 == IF e1.scheduleType = "once" THEN [e1 EXCEPT !.status = "sent"] ELSE e1
    IN  IF e2.maxSendCount # Null /\ e2.maxSendCount # Undefined
           /\ e2.sendCount > e2.maxSendCount
        THEN [e2 EXCEPT !.status = "sent"]
        ELSE e2

\* lines 167-182: the task object after a successful send, before the next
\* run is computed
AfterSuccess(email, clock) ==
    LET e1 == [email EXCEPT !.lastSentAt = clock,
                            !.sendCount = email.sendCount + 1,
                            !.errorMessage = ""]
        e2 == IF e1.scheduleType = "once" THEN [e1 EXCEPT !.status = "sent"] ELSE e1
    IN  IF e2.maxSendCount # Null /\ e2.maxSendCount # Undefined
           /\ e2.sendCount >= e2.maxSendCount
        THEN [e2 EXCEPT !.status = "sent"]
        ELSE e2

\* lines 197-198 and 214-215
AfterFailure(email, message) ==
    [email EXCEPT !.status = "failed", !.errorMessage = message]

\* the continuation of executeScheduledEmail after `await sendEmail(...)`.
\* sent: the transport accepted the message.  With _ctx cleared sendEmail
\* rejects (its logger calls throw), the catch block cannot read the store
\* either, and the call rejects without a history record or a store write.
Complete(i, sent) ==
    /\ i \in 1..Len(execs)
    /\ LET email == execs[i].email
       IN
       IF ~ctx THEN
            UNCHANGED <<history, scheduledEmails>>
       ELSE IF sent THEN
            LET e1 == AfterSuccess(email, now)
                e2 == IF NextThrows(e1)
                      THEN AfterFailure(e1, "Invalid time value")
                      ELSE [e1 EXCEPT !.scheduledAt = calculateNextScheduledTime(e1, now)]
            IN  /\ history' = addRecord(history, HistoryRecord("scheduled", "success", email.id))
                /\ scheduledEmails' = saveDataFile(taskWritable, scheduledEmails, WriteBack(scheduledEmails, e2))
       ELSE
            LET e1 == AfterFailure(email, "send failed")
            IN  /\ history' = addRecord(history, HistoryRecord("scheduled", "failed", email.id))
                /\ scheduledEmails' = saveDataFile(taskWritable, scheduledEmails, WriteBack(scheduledEmails, e1))
    /\ execs' = SubSeq(execs, 1, i - 1) \o SubSeq(execs, i + 1, Len(execs))
    /\ UNCHANGED <<reply, taskFile, taskWritable, historyWritable, config, mails, tz, sends, requests, intervals, now, ctx, timers, sinceTick, dispatched, idCounter, updates>>

\* ------------------------------------------------- Task Lifecycle Manager

\* the request bodies tried for POST /scheduled-emails: each schedule type
\* with its own field set or missing, due a minute ago or in a minute
CreateParams(clock) ==
    [scheduleType : ScheduleTypes,
     scheduledAt : {clock - 1, clock + 1, InvalidDate},
     intervalMinutes : {Undefined, 0, 1},
     weekday : {Undefined, 3},
     dayOfMonth : {Undefined, 31},
     maxSendCount : {Undefined, 0, 1}]

\* the type-specific fields the body carries belong to its schedule type
OwnFields(params) ==
    /\ params.intervalMinutes # Undefined => params.scheduleType = "interval"
    /\ params.weekday # Undefined => params.scheduleType = "weekly"
    /\ params.dayOfMonth # Undefined => params.scheduleType = "monthly"

\* `!s || s.trim() === ''` for the strings tried
Blank(s) == s \in {"", " "}

\* r.includes('@') for the recipients tried
HasAt(r) == r \in {"user@example.com", "admin@example.com"}

\* x < n and x > n in JavaScript for a number, null (0) or undefined (NaN)
Less(x, n) == x # Undefined /\ (IF x = Null THEN 0 ELSE x) < n

Greater(x, n) == x # Undefined /\ (IF x = Null THEN 0 ELSE x) > n

\* the checks of name, to and subject: the message of the first that fails,
\* "" when all pass.  to is the list of the comma-separated pieces of the
\* string, <<>> for an absent or empty one
textMessage(params) ==
    LET recipients == SelectSeq(params.to, LAMBDA r : ~Blank(r))
    IN  IF Blank(params.name) THEN "name must not be empty"
        ELSE IF Len(params.to) = 0 \/ (Len(params.to) = 1 /\ Blank(params.to[1]))
             THEN "recipient must not be empty"
        ELSE IF Len(recipients) = 0 THEN "recipient address invalid"
        ELSE IF \E n \in 1..Len(recipients) : ~HasAt(recipients[n])
             THEN "invalid recipient addresses"
        ELSE IF Blank(params.subject) THEN "subject must not be empty"
        ELSE ""

\* the checks of scheduledAt, with `<` where the code has `<=`
timeMessagePastOnly(params, clock) ==
    IF params.scheduledAt = Undefined THEN "time must not be empty"
    ELSE IF params.scheduledAt = InvalidDate THEN "time format invalid"
    ELSE IF params.scheduleType = "once" /\ params.scheduledAt < clock
         THEN "time of a once task must be in the future"
    ELSE ""

\* the checks of scheduledAt: present, a valid date, and for a once task
\* later than the clock
timeMessage(params, clock) ==
    IF params.scheduledAt = Undefined THEN "time must not be empty"
    ELSE IF params.scheduledAt = InvalidDate THEN "time format invalid"
    ELSE IF params.scheduleType = "once" /\ params.scheduledAt <= clock
         THEN "time of a once task must be in the future"
    ELSE ""

\* the checks of the fields of the schedule type and of maxSendCount
scheduleMessage(params) ==
    IF /\ params.scheduleType = "interval"
       /\ (params.intervalMinutes \in {Undefined, Null, 0}
            \/ Less(params.intervalMinutes, 0))
    THEN "interval must be greater than 0 minutes"
    ELSE IF /\ params.scheduleType = "weekly"
            /\ (params.weekday = Undefined \/ Less(params.weekday, 0)
                 \/ Greater(params.weekday, 6))
    THEN "choose a valid weekday (0-6)"
    ELSE IF /\ params.scheduleType = "monthly"
            /\ (params.dayOfMonth = Undefined \/ Less(params.dayOfMonth, 1)
                 \/ Greater(params.dayOfMonth, 31))
    THEN "choose a valid day (1-31)"
    ELSE IF /\ params.maxSendCount # Undefined
            /\ params.maxSendCount # Null
            /\ params.maxSendCount <= 0
    THEN "maxSendCount must be greater than 0"
    ELSE ""

\* validateScheduledEmailParams(params) at the given clock: the first check
\* that fails decides the message
validate(params, clock) ==
    LET message ==
            IF textMessage(params) # "" THEN textMessage(params)
            ELSE IF timeMessage(params, clock) # "" THEN timeMessage(params, clock)
            ELSE IF scheduleMessage(params) # "" THEN scheduleMessage(params)
            ELSE "valid"
    IN  [valid |-> message = "valid", message |-> message]

\* a well-formed name, recipient list and subject
TextFields ==
    [name |-> "report", to |-> <<"user@example.com">>, subject |-> "Report"]

\* validateScheduledEmailParams without the rule that a once task lies in
\* the future
validateOnceAnyTime(params, clock) ==
    /\ params.scheduledAt # InvalidDate
    /\ params.scheduleType = "interval" =>
          ~(params.intervalMinutes \in {Undefined, Null, 0} \/ params.intervalMinutes <= 0)
    /\ params.scheduleType = "weekly" =>
          ~(params.weekday = Undefined \/ params.weekday < 0 \/ params.weekday > 6)
    /\ params.scheduleType = "monthly" =>
          ~(params.dayOfMonth = Undefined \/ params.dayOfMonth < 1 \/ params.dayOfMonth > 31)
    /\ ~(params.maxSendCount # Undefined /\ params.maxSendCount # Null
         /\ params.maxSendCount <= 0)

\* validateScheduledEmailParams(params).valid, for a body whose name, to and
\* subject are well-formed
validateScheduledEmailParams(params, clock) ==
    validate(params @@ TextFields, clock).valid

\* generateId(): the id of the (n+1)-th call, as long as the clock and the
\* random suffix it is built from do not repeat
generateId(n) == n + 1

\* generateId() when Date.now() and Math.random() may repeat: any id of
\* the pool, one already generated included
GeneratedIds == 1..MaxSiblings

createScheduledEmail(emails, params, id) ==
    Append(emails,
        [id |-> id,
         scheduleType |-> params.scheduleType,
         scheduledAt |-> params.scheduledAt,
         intervalMinutes |-> params.intervalMinutes,
         weekday |-> params.weekday,
         dayOfMonth |-> params.dayOfMonth,
         status |-> "pending",
         sendCount |-> 0,
         maxSendCount |-> IF params.maxSendCount = Undefined THEN Null
                          ELSE params.maxSendCount,
         lastSentAt |-> Undefined,
         errorMessage |-> ""])

\* POST /scheduled-emails: validate, then create with the id generated; at
\* most `max` tasks are created
CreateWithId(params, max, id) ==
    /\ ctx
    /\ idCounter < max
    /\ OwnFields(params)
    /\ validateScheduledEmailParams(params, now)
    /\ scheduledEmails' = saveDataFile(taskWritable, scheduledEmails,
                            createScheduledEmail(scheduledEmails, params, id))
    /\ idCounter' = idCounter + 1
    /\ UNCHANGED <<reply, taskFile, taskWritable, historyWritable, config, mails, tz, sends, requests, intervals, now, ctx, timers, sinceTick, history, execs, dispatched, updates>>

CreateUpTo(params, max) == CreateWithId(params, max, generateId(idCounter))

Create(params) == CreateUpTo(params, MaxTasks)

\* POST /scheduled-emails with the response it sends: the message of the
\* validation, and the task created when the body is valid.  One request
\* is followed
CreateRequest(params) ==
    /\ ctx
    /\ idCounter < MaxTasks
    /\ reply = NoReply
    /\ LET validation == validate(params, now)
       IN  /\ reply' = [op |-> "create", params |-> params, at |-> now,
                        valid |-> validation.valid,
                        message |-> validation.message]
           /\ IF validation.valid
              THEN /\ scheduledEmails' = saveDataFile(taskWritable, scheduledEmails,
                        createScheduledEmail(scheduledEmails, params, generateId(idCounter)))
                   /\ idCounter' = idCounter + 1
              ELSE UNCHANGED <<scheduledEmails, idCounter>>
    /\ UNCHANGED <<taskFile, taskWritable, historyWritable, config, mails, tz, sends, requests, intervals, now, ctx, timers, sinceTick, history, execs, dispatched, updates>>

\* the fields of a PUT body; "undefined" / Undefined marks an omitted field
NoChange ==
    [scheduleType |-> "undefined", scheduledAt |-> Undefined,
     intervalMinutes |-> Undefined, status |-> "undefined",
     maxSendCount |-> Undefined]

\* the request bodies tried for PUT /scheduled-emails/:id: one field each
UpdateParams(clock) ==
    {[NoChange EXCEPT !.status = v] : v \in {"pending"}}
    \cup {[NoChange EXCEPT !.scheduledAt = v] : v \in {clock + 2, InvalidDate}}
    \cup {[NoChange EXCEPT !.intervalMinutes = v] : v \in {0}}
    \cup {[NoChange EXCEPT !.maxSendCount = v] : v \in {1}}

\* the merge assigning every field of the body, present or not
MergeEveryField(email, params) ==
    [email EXCEPT
        !.scheduleType = params.scheduleType,
        !.scheduledAt = params.scheduledAt,
        !.intervalMinutes = params.intervalMinutes,
        !.status = params.status,
        !.maxSendCount = params.maxSendCount]

\* lines 81-98: merge the fields that are present
Merge(email, params) ==
    [email EXCEPT
        !.scheduleType = IF params.scheduleType # "undefined" THEN params.scheduleType ELSE @,
        !.scheduledAt = IF params.scheduledAt # Undefined THEN params.scheduledAt ELSE @,
        !.intervalMinutes = IF params.intervalMinutes # Undefined
                            THEN params.intervalMinutes ELSE @,
        !.status = IF params.status # "undefined" THEN params.status ELSE @,
        !.maxSendCount = IF params.maxSendCount # Undefined THEN params.maxSendCount ELSE @]

updateScheduledEmail(emails, id, params) ==
    LET index == FindIndex(emails, id)
    IN  IF index = 0 THEN emails
        ELSE [emails EXCEPT ![index] = Merge(emails[index], params)]

\* PUT /scheduled-emails/:id
Update(id, params) ==
    /\ ctx
    /\ updates < MaxUpdates
    /\ scheduledEmails' = saveDataFile(taskWritable, scheduledEmails,
                            updateScheduledEmail(scheduledEmails, id, params))
    /\ updates' = updates + 1
    /\ UNCHANGED <<reply, taskFile, taskWritable, historyWritable, config, mails, tz, sends, requests, intervals, now, ctx, timers, sinceTick, history, execs, dispatched, idCounter>>

\* cancelScheduledEmail(id)
cancelScheduledEmail(emails, id) ==
    updateScheduledEmail(emails, id, [NoChange EXCEPT !.status = "cancelled"])

\* POST /scheduled-emails/:id/cancel
Cancel(id) ==
    /\ ctx
    /\ FindIndex(scheduledEmails, id) # 0
    /\ scheduledEmails' = saveDataFile(taskWritable, scheduledEmails,
                            cancelScheduledEmail(scheduledEmails, id))
    /\ UNCHANGED <<reply, taskFile, taskWritable, historyWritable, config, mails, tz, sends, requests, intervals, now, ctx, timers, sinceTick, history, execs, dispatched, idCounter, updates>>

deleteScheduledEmail(emails, id) ==
    LET index == FindIndex(emails, id)
    IN  IF index = 0 THEN emails
        ELSE SubSeq(emails, 1, index - 1) \o SubSeq(emails, index + 1, Len(emails))

\* DELETE /scheduled-emails/:id
Delete(id) ==
    /\ ctx
    /\ FindIndex(scheduledEmails, id) # 0
    /\ scheduledEmails' = saveDataFile(taskWritable, scheduledEmails,
                            deleteScheduledEmail(scheduledEmails, id))
    /\ UNCHANGED <<reply, taskFile, taskWritable, historyWritable, config, mails, tz, sends, requests, intervals, now, ctx, timers, sinceTick, history, execs, dispatched, idCounter, updates>>

\* a manual execution that applied the checker's filter (pending and due)
ExecuteNowIfDue(id) ==
    /\ ctx
    /\ dispatched < MaxExec
    /\ LET index == FindIndex(scheduledEmails, id)
       IN  /\ index # 0
           /\ IsDue(scheduledEmails[index], now)
           /\ execs' = Append(execs, NewExec(scheduledEmails[index], "now"))
    /\ dispatched' = dispatched + 1
    /\ UNCHANGED <<reply, taskFile, taskWritable, historyWritable, config, mails, tz, sends, requests, intervals, now, ctx, timers, sinceTick, scheduledEmails, history, idCounter, updates>>

\* POST /scheduled-emails/:id/execute and `#email scheduled exec <id>`:
\* look the task up, then call executeScheduledEmail whatever its status
ExecuteNow(id) ==
    /\ ctx
    /\ dispatched < MaxExec
    /\ LET index == FindIndex(scheduledEmails, id)
       IN  /\ index # 0
           /\ execs' = Append(execs, NewExec(scheduledEmails[index], "now"))
    /\ dispatched' = dispatched + 1
    /\ UNCHANGED <<reply, taskFile, taskWritable, historyWritable, config, mails, tz, sends, requests, intervals, now, ctx, timers, sinceTick, scheduledEmails, history, idCounter, updates>>

\* loadDataFile(filename, defaultValue): the path is built from the context
\* before the try block, so the call throws when _ctx is cleared; an absent
\* file and one that does not parse give the default
loadDataFile(ctxOk, file, content, defaultValue) ==
    IF ~ctxOk THEN [threw |-> TRUE, value |-> defaultValue]
    ELSE [threw |-> FALSE, value |-> IF file = "ok" THEN content ELSE defaultValue]

getScheduledEmails == loadDataFile(ctx, taskFile, scheduledEmails, <<>>)

\* GET /scheduled-emails
List ==
    /\ ctx
    /\ reply' = [op |-> "list", threw |-> getScheduledEmails.threw,
                 value |-> getScheduledEmails.value]
    /\ UNCHANGED <<taskFile, taskWritable, historyWritable, config, mails, tz, sends, requests, intervals, now, ctx, timers, sinceTick, scheduledEmails, history, execs, dispatched, idCounter, updates>>

\* GET /scheduled-emails/:id; <<>> is an absent task
GetById(id) ==
    /\ ctx
    /\ reply' = [op |-> "get", threw |-> getScheduledEmails.threw,
                 value |-> SelectSeq(getScheduledEmails.value, LAMBDA e : e.id = id)]
    /\ UNCHANGED <<taskFile, taskWritable, historyWritable, config, mails, tz, sends, requests, intervals, now, ctx, timers, sinceTick, scheduledEmails, history, execs, dispatched, idCounter, updates>>

\* ------------------------------------------------- manual and test sends

\* the callers of a manual or test send: the HTTP routes and the chat commands
SendRoutes == {"http", "chat"}

\* POST /email/send and POST /email/test, `#email send` and `#email test`:
\* the handler up to its `await sendEmail(...)` / `await sendTestEmail(...)`
SendRequest(route, sendType) ==
    /\ ctx
    /\ requests < MaxSends
    /\ sends' = Append(sends, [route |-> route, sendType |-> sendType])
    /\ requests' = requests + 1
    /\ UNCHANGED <<reply, taskFile, taskWritable, historyWritable, config, mails, tz, intervals, now, ctx, timers, sinceTick, scheduledEmails, history,
                   execs, dispatched, idCounter, updates>>

\* the continuation after the await.  The HTTP routes add the history
\* record; the chat commands only reply to the sender.  With _ctx cleared
\* sendEmail rejects and the route answers 500 without a record.
SendComplete(i, sent) ==
    /\ i \in 1..Len(sends)
    /\ history' = IF ctx /\ sends[i].route = "http"
                  THEN addRecord(history,
                                 HistoryRecord(sends[i].sendType,
                                               IF sent THEN "success" ELSE "failed",
                                               Undefined))
                  ELSE history
    /\ sends' = SubSeq(sends, 1, i - 1) \o SubSeq(sends, i + 1, Len(sends))
    /\ UNCHANGED <<reply, taskFile, taskWritable, historyWritable, config, mails, tz, intervals, requests, now, ctx, timers, sinceTick, scheduledEmails,
                   execs, dispatched, idCounter, updates>>

\* --------------------------------------------------------- Mail Dispatcher

\* validateSmtpConfig without the test of the port
validateSmtpConfigNoPort(smtpConfig) ==
    LET message ==
            IF smtpConfig.host = "" THEN "SMTP host must not be empty"
            ELSE IF smtpConfig.user = "" THEN "user must not be empty"
            ELSE IF smtpConfig.pass = "" THEN "pass must not be empty"
            ELSE "valid"
    IN  [valid |-> message = "valid", message |-> message]

\* validateSmtpConfig(smtpConfig): host, port, user, pass in this order
validateSmtpConfig(smtpConfig) ==
    LET message ==
            IF smtpConfig.host = "" THEN "SMTP host must not be empty"
            ELSE IF smtpConfig.port \in {Undefined, Null, 0}
                    \/ smtpConfig.port <= 0 \/ smtpConfig.port > 65535
                 THEN "SMTP port invalid"
            ELSE IF smtpConfig.user = "" THEN "user must not be empty"
            ELSE IF smtpConfig.pass = "" THEN "pass must not be empty"
            ELSE "valid"
    IN  [valid |-> message = "valid", message |-> message]

\* the result of a call that has not settled
Pending == [success |-> FALSE, message |-> "pending"]

\* sendEmail(params) up to its first await.  The settings are those of the
\* flat smtp* fields of the configuration; params.accountId is not read.
\* smtp: the settings of the transport; calls: the calls made on the
\* transport; pc: where the call stands
sendEmail(cfg, accountId) ==
    LET smtpConfig == cfg.smtp
        validation == validateSmtpConfig(smtpConfig)
    IN  IF ~validation.valid
        THEN [accountId |-> accountId, smtp |-> smtpConfig, calls |-> <<>>,
              verified |-> "no", pc |-> "resolved",
              result |-> [success |-> FALSE, message |-> validation.message]]
        ELSE [accountId |-> accountId, smtp |-> smtpConfig, calls |-> <<"verify">>,
              verified |-> "no", pc |-> "verify", result |-> Pending]

\* the catch block of sendEmail: log the error and return the failure; the
\* logger throws when _ctx is cleared, and the call rejects
catchError(m, message, ctxOk) ==
    IF ctxOk
    THEN [m EXCEPT !.pc = "resolved",
                   !.result = [success |-> FALSE, message |-> message]]
    ELSE [m EXCEPT !.pc = "rejected"]

\* sendEmail after `await transporter.verify()`: log, build the message and
\* call transporter.sendMail
afterVerify(m, ok, ctxOk) ==
    IF ~ok THEN catchError([m EXCEPT !.verified = "failed"], "verify failed", ctxOk)
    ELSE IF ~ctxOk THEN catchError([m EXCEPT !.verified = "ok"], "not initialised", ctxOk)
    ELSE [m EXCEPT !.verified = "ok", !.pc = "sendMail",
                   !.calls = Append(m.calls, "sendMail")]

\* sendEmail after `await transporter.sendMail(...)`
afterSendMail(m, ok, ctxOk) ==
    IF ~ok THEN catchError(m, "send failed", ctxOk)
    ELSE IF ~ctxOk THEN catchError(m, "not initialised", ctxOk)
    ELSE [m EXCEPT !.pc = "resolved",
                   !.result = [success |-> TRUE, message |-> "sent"]]

getEmailAccountById(cfg, id) ==
    SelectSeq(cfg.emailAccounts, LAMBDA account : account.id = id)

\* getDefaultEmailAccount(): the account named by defaultAccountId, else the
\* first account; <<>> without accounts
getDefaultEmailAccount(cfg) ==
    IF Len(cfg.emailAccounts) = 0 THEN <<>>
    ELSE IF cfg.defaultAccountId # "" /\ Len(getEmailAccountById(cfg, cfg.defaultAccountId)) > 0
         THEN <<getEmailAccountById(cfg, cfg.defaultAccountId)[1]>>
    ELSE <<cfg.emailAccounts[1]>>

\* saveToFile() without its try/catch
saveToFileUncaught(writable, ctxOk) ==
    IF writable THEN "saved" ELSE "thrown"

\* saveToFile(): a failed write is caught and logged; the logger throws
\* when _ctx is cleared
saveToFile(writable, ctxOk) ==
    IF writable THEN "saved"
    ELSE IF ctxOk THEN "logged"
    ELSE "thrown"

\* POST /email/send after `await sendEmail(...)`: add the history record
\* and answer with the result; a rejected call or a throw of addRecord is
\* answered 500 by the catch block of the route
Respond(m) ==
    IF m.pc = "rejected"
    THEN /\ reply' = [op |-> "send", success |-> FALSE, message |-> "rejected"]
         /\ UNCHANGED history
    ELSE /\ history' = addRecord(history,
                                 HistoryRecord("manual",
                                               IF m.result.success THEN "success" ELSE "failed",
                                               Undefined))
         /\ reply' = IF saveToFile(historyWritable, ctx) = "thrown"
                     THEN [op |-> "send", success |-> FALSE, message |-> "write failed"]
                     ELSE [op |-> "send", success |-> m.result.success,
                           message |-> m.result.message]

\* POST /email/send: an accountId that names no account is answered 400;
\* otherwise sendEmail is called
MailRequest(accountId) ==
    /\ ctx
    /\ Len(mails) < MaxMails
    /\ IF accountId # "" /\ Len(getEmailAccountById(config, accountId)) = 0
       THEN /\ reply' = [op |-> "send", success |-> FALSE,
                         message |-> "account does not exist"]
            /\ UNCHANGED <<mails, history>>
       ELSE LET m == sendEmail(config, accountId)
            IN  /\ mails' = Append(mails, m)
                /\ IF m.pc = "resolved" THEN Respond(m)
                   ELSE UNCHANGED <<reply, history>>
    /\ UNCHANGED <<taskFile, taskWritable, historyWritable, config, tz, sends, requests, intervals, now, ctx, timers, sinceTick, scheduledEmails, execs, dispatched, idCounter, updates>>

\* transporter.verify() settles
VerifyDone(i, ok) ==
    /\ i \in 1..Len(mails)
    /\ mails[i].pc = "verify"
    /\ LET m == afterVerify(mails[i], ok, ctx)
       IN  /\ mails' = [mails EXCEPT ![i] = m]
           /\ IF m.pc \in {"resolved", "rejected"} THEN Respond(m)
              ELSE UNCHANGED <<reply, history>>
    /\ UNCHANGED <<taskFile, taskWritable, historyWritable, config, tz, sends, requests, intervals, now, ctx, timers, sinceTick, scheduledEmails, execs, dispatched, idCounter, updates>>

\* transporter.sendMail() settles
SendMailDone(i, ok) ==
    /\ i \in 1..Len(mails)
    /\ mails[i].pc = "sendMail"
    /\ LET m == afterSendMail(mails[i], ok, ctx)
       IN  /\ mails' = [mails EXCEPT ![i] = m]
           /\ Respond(m)
    /\ UNCHANGED <<taskFile, taskWritable, historyWritable, config, tz, sends, requests, intervals, now, ctx, timers, sinceTick, scheduledEmails, execs, dispatched, idCounter, updates>>

\* ------------------------------------------------------------ PluginState

\* startScheduledEmailChecker() without the timers.has(...) test
startScheduledEmailCheckerAgain(t, n) ==
    <<t \cup {"scheduledEmailChecker"}, n + 1>>

\* startScheduledEmailChecker(): the keys of `timers` and the number of
\* active intervals after the call
startScheduledEmailChecker(t, n) ==
    IF "scheduledEmailChecker" \in t THEN <<t, n>>
    ELSE <<t \cup {"scheduledEmailChecker"}, n + 1>>

\* stopScheduledEmailChecker(): likewise
stopScheduledEmailChecker(t, n) ==
    IF "scheduledEmailChecker" \in t
    THEN <<t \ {"scheduledEmailChecker"}, n - 1>>
    ELSE <<t, n>>

\* init(ctx): set the context, start the checker (a new interval starts its
\* period afresh)
PluginInit ==
    /\ intervals < MaxIntervals
    /\ ctx' = TRUE
    /\ LET started == startScheduledEmailChecker(timers, intervals)
       IN  /\ timers' = started[1]
           /\ intervals' = started[2]
           /\ sinceTick' = IF started[2] > intervals THEN 0 ELSE sinceTick
    /\ UNCHANGED <<reply, taskFile, taskWritable, historyWritable, config, mails, tz, sends, requests, now, scheduledEmails, history, execs, dispatched,
                   idCounter, updates>>

\* cleanup(): stop the checker, clear every timer left, drop the context
Cleanup ==
    /\ ctx
    /\ ctx' = FALSE
    /\ LET stopped == stopScheduledEmailChecker(timers, intervals)
       IN  /\ timers' = {}
           /\ intervals' = stopped[2] - Cardinality(stopped[1])
    /\ UNCHANGED <<reply, taskFile, taskWritable, historyWritable, config, mails, tz, sends, requests, now, sinceTick, scheduledEmails, history, execs, dispatched, idCounter, updates>>

\* ------------------------------------------------------------------ system

Ids == 1..MaxTasks

Init ==
    /\ now = T0
    /\ ctx = TRUE
    /\ timers = startScheduledEmailChecker({}, 0)[1]
    /\ intervals = startScheduledEmailChecker({}, 0)[2]
    /\ sends = <<>>
    /\ requests = 0
    /\ reply = NoReply
    /\ taskFile = "ok"
    /\ taskWritable = TRUE
    /\ historyWritable = TRUE
    /\ config = DEFAULT_CONFIG
    /\ mails = <<>>
    /\ tz = "UTC"
    /\ sinceTick = 0
    /\ scheduledEmails = <<>>
    /\ history = <<>>
    /\ execs = <<>>
    /\ dispatched = 0
    /\ idCounter = 0
    /\ updates = 0

Next ==
    \/ Tock
    \/ Tick
    \/ \E i \in 1..MaxExec, sent \in BOOLEAN : Complete(i, sent)
    \/ \E params \in CreateParams(now) : Create(params)
    \/ \E id \in Ids, params \in UpdateParams(now) : Update(id, params)
    \/ \E id \in Ids : Cancel(id)
    \/ \E id \in Ids : Delete(id)
    \/ \E id \in Ids : ExecuteNow(id)
    \/ Cleanup

Spec == Init /\ [][Next]_vars

\* manual and test sends beside the task store
NextSend ==
    \/ \E route \in SendRoutes, sendType \in {"manual", "test"} : SendRequest(route, sendType)
    \/ \E i \in 1..MaxSends, sent \in BOOLEAN : SendComplete(i, sent)
    \/ \E params \in CreateParams(now) : Create(params)
    \/ Cleanup

SpecSend == Init /\ [][NextSend]_vars

\* the plugin is initialised and cleaned up repeatedly while tasks run
NextTimer ==
    \/ PluginInit
    \/ Cleanup
    \/ Tock
    \/ Tick
    \/ \E i \in 1..MaxExec, sent \in BOOLEAN : Complete(i, sent)
    \/ \E params \in CreateParams(now) : Create(params)

SpecTimer == Init /\ [][NextTimer]_vars

\* the request bodies tried when several tasks are stored: once, daily and
\* interval tasks, valid or not, the recurring ones already due
SiblingParams(clock) ==
    {params \in CreateParams(clock) :
        /\ params.scheduleType \in {"once", "daily", "interval"}
        /\ params.scheduleType # "once" => params.scheduledAt # clock + 1
        /\ params.maxSendCount \in {Undefined, 0}}

\* several tasks in the store, created, updated, deleted and run by the
\* checker side by side
NextStore ==
    \/ Tock
    \/ Tick
    \/ \E i \in 1..MaxExec, sent \in BOOLEAN : Complete(i, sent)
    \/ \E params \in SiblingParams(now) : CreateUpTo(params, MaxSiblings)
    \/ \E id \in 1..MaxSiblings, params \in UpdateParams(now) : Update(id, params)
    \/ \E id \in 1..MaxSiblings : Delete(id)
    \/ \E id \in 1..MaxSiblings : ExecuteNow(id)

SpecStore == Init /\ [][NextStore]_vars

\* minute `minute` of the day y-m-d, UTC
At(y, m, d, minute) == DaysFromCivil(y, m, d) * MinutesPerDay + minute

\* the scheduledAt values tried for the recurrence: the days around the
\* change of offset at several times of day, a week and a month before it,
\* and the end of January
NextRunTimes ==
    {At(2027, 3, 27, 30), At(2027, 3, 27, 90), At(2027, 3, 27, 540),
     At(2027, 3, 28, 30), At(2027, 3, 28, 540), At(2027, 3, 21, 540),
     At(2027, 2, 28, 540), At(2027, 1, 31, 540)}

\* the wall-clock times tried for the execution
NextRunClocks == {At(2027, 3, 27, 600), At(2027, 3, 28, 600), At(2027, 3, 29, 0)}

\* a stored task of each schedule type
NextRunTasks ==
    {createScheduledEmail(<<>>, params, generateId(0)) :
        params \in {q \in [scheduleType : ScheduleTypes,
                           scheduledAt : NextRunTimes,
                           intervalMinutes : {Undefined, 1},
                           weekday : {Undefined, 0},
                           dayOfMonth : {Undefined, 28},
                           maxSendCount : {Undefined}] :
                        /\ q.intervalMinutes # Undefined <=> q.scheduleType = "interval"
                        /\ q.weekday # Undefined <=> q.scheduleType = "weekly"
                        /\ q.dayOfMonth # Undefined <=> q.scheduleType = "monthly"}}

\* the plugin runs in some time zone with one task stored
InitNextRun ==
    /\ now \in NextRunClocks
    /\ tz \in TimeZones
    /\ scheduledEmails \in NextRunTasks
    /\ idCounter = 1
    /\ ctx = TRUE
    /\ timers = startScheduledEmailChecker({}, 0)[1]
    /\ intervals = startScheduledEmailChecker({}, 0)[2]
    /\ sinceTick = 0
    /\ history = <<>>
    /\ execs = <<>>
    /\ dispatched = 0
    /\ updates = 0
    /\ sends = <<>>
    /\ requests = 0
    /\ reply = NoReply
    /\ taskFile = "ok"
    /\ taskWritable = TRUE
    /\ historyWritable = TRUE
    /\ config = DEFAULT_CONFIG
    /\ mails = <<>>

\* the task is executed on request and its next run computed
NextNextRun ==
    \/ \E id \in Ids : ExecuteNow(id)
    \/ \E i \in 1..MaxExec, sent \in BOOLEAN : Complete(i, sent)

SpecNextRun == InitNextRun /\ [][NextNextRun]_vars

\* the history sizes tried: empty, the 25 records of three pages with one
\* to come, and the limit with one record to spare
HistorySizes == {0, 24, 25, MAX_HISTORY_SIZE - 1, MAX_HISTORY_SIZE}

\* a history of n records, newest first, of every sendType and status in turn
HistoryOf(n) ==
    [k \in 1..n |->
        LET sendType == <<"manual", "test", "scheduled">>[(k % 3) + 1]
        IN  HistoryRecord(sendType,
                          <<"success", "failed">>[((k \div 3) % 2) + 1],
                          IF sendType = "scheduled" THEN n - k + 1 ELSE Undefined)]

\* the plugin starts with the history loaded from email_history.json
InitHistory ==
    /\ history \in {HistoryOf(n) : n \in HistorySizes}
    /\ now = T0
    /\ tz = "UTC"
    /\ ctx = TRUE
    /\ timers = startScheduledEmailChecker({}, 0)[1]
    /\ intervals = startScheduledEmailChecker({}, 0)[2]
    /\ sinceTick = 0
    /\ scheduledEmails = <<>>
    /\ execs = <<>>
    /\ dispatched = 0
    /\ idCounter = 0
    /\ updates = 0
    /\ sends = <<>>
    /\ requests = 0
    /\ reply = NoReply
    /\ taskFile = "ok"
    /\ taskWritable = TRUE
    /\ historyWritable = TRUE
    /\ config = DEFAULT_CONFIG
    /\ mails = <<>>

\* manual and test sends are requested and recorded
NextHistory ==
    \/ \E route \in SendRoutes, sendType \in {"manual", "test"} : SendRequest(route, sendType)
    \/ \E i \in 1..MaxSends, sent \in BOOLEAN : SendComplete(i, sent)

SpecHistory == InitHistory /\ [][NextHistory]_vars

\* the request bodies tried when generated ids may repeat
IdParams(clock) ==
    {params \in SiblingParams(clock) : params.scheduleType = "daily"}

\* several tasks, whose generated ids may repeat, updated, cancelled and run
NextIds ==
    \/ Tock
    \/ Tick
    \/ \E i \in 1..MaxExec, sent \in BOOLEAN : Complete(i, sent)
    \/ \E params \in IdParams(now), id \in GeneratedIds :
            CreateWithId(params, MaxSiblings, id)
    \/ \E id \in GeneratedIds, params \in UpdateParams(now) : Update(id, params)
    \/ \E id \in GeneratedIds : Cancel(id)

SpecIds == Init /\ [][NextIds]_vars

\* the request bodies tried for validation: every defect of name, to and
\* subject, scheduledAt absent, invalid, past, now and future, and for each
\* schedule type its own field absent, null, below, inside and above its range
TextCases ==
    {TextFields,
     [TextFields EXCEPT !.name = ""],
     [TextFields EXCEPT !.name = " "],
     [TextFields EXCEPT !.to = <<>>],
     [TextFields EXCEPT !.to = <<" ">>],
     [TextFields EXCEPT !.to = <<"", " ">>],
     [TextFields EXCEPT !.to = <<"nobody">>],
     [TextFields EXCEPT !.to = <<"user@example.com", "nobody">>],
     [TextFields EXCEPT !.to = <<"user@example.com", "admin@example.com">>],
     [TextFields EXCEPT !.subject = ""]}

NoScheduleFields ==
    [intervalMinutes |-> Undefined, weekday |-> Undefined, dayOfMonth |-> Undefined]

ScheduleCases ==
    {[scheduleType |-> type] @@ NoScheduleFields : type \in ScheduleTypes}
    \cup {[scheduleType |-> "interval", intervalMinutes |-> m] @@ NoScheduleFields :
            m \in {Null, -5, 0, 1}}
    \cup {[scheduleType |-> "weekly", weekday |-> d] @@ NoScheduleFields :
            d \in {Null, -5, 0, 6, 7}}
    \cup {[scheduleType |-> "monthly", dayOfMonth |-> d] @@ NoScheduleFields :
            d \in {Null, -5, 0, 1, 31, 32}}

ValidateParams(clock) ==
    {text @@ schedule @@ [scheduledAt |-> at, maxSendCount |-> max] :
        text \in TextCases, schedule \in ScheduleCases,
        at \in {Undefined, InvalidDate, clock - 1, clock, clock + 1},
        max \in {Undefined, Null, -5, 0, 1}}

NextValidate ==
    \/ Tock
    \/ /\ reply = NoReply
       /\ \E params \in ValidateParams(now) : CreateRequest(params)

SpecValidate == Init /\ [][NextValidate]_vars

\* the SMTP settings tried: valid, and each field or several of them bad
ValidSmtp ==
    [host |-> "smtp.example.com", port |-> 465, user |-> "bot@example.com",
     pass |-> "secret"]

SmtpCases ==
    {ValidSmtp,
     [ValidSmtp EXCEPT !.host = ""],
     [ValidSmtp EXCEPT !.port = 0],
     [ValidSmtp EXCEPT !.port = 65536],
     [ValidSmtp EXCEPT !.user = ""],
     [ValidSmtp EXCEPT !.pass = ""],
     [ValidSmtp EXCEPT !.host = "", !.port = 0],
     [ValidSmtp EXCEPT !.port = 65536, !.pass = ""],
     [ValidSmtp EXCEPT !.user = "", !.pass = ""]}

Account(id, host) ==
    [id |-> id, host |-> host, port |-> 587, user |-> id, pass |-> "secret"]

\* the configurations tried: no account, one, or two with either as default
ConfigCases ==
    {[smtp |-> smtp, emailAccounts |-> accounts, defaultAccountId |-> default] :
        smtp \in SmtpCases,
        accounts \in {<<>>, <<Account("A", "smtp.a.example")>>,
                      <<Account("A", ""), Account("B", "smtp.b.example")>>},
        default \in {"", "B"}}

InitMail ==
    /\ now = T0
    /\ ctx = TRUE
    /\ timers = startScheduledEmailChecker({}, 0)[1]
    /\ intervals = startScheduledEmailChecker({}, 0)[2]
    /\ sends = <<>>
    /\ requests = 0
    /\ reply = NoReply
    /\ taskFile = "ok"
    /\ taskWritable = TRUE
    /\ historyWritable \in BOOLEAN
    /\ config \in ConfigCases
    /\ mails = <<>>
    /\ tz = "UTC"
    /\ sinceTick = 0
    /\ scheduledEmails = <<>>
    /\ history = <<>>
    /\ execs = <<>>
    /\ dispatched = 0
    /\ idCounter = 0
    /\ updates = 0

NextMail ==
    \/ \E accountId \in {"", "A", "B"} : MailRequest(accountId)
    \/ \E i \in 1..MaxMails, ok \in BOOLEAN : VerifyDone(i, ok)
    \/ \E i \in 1..MaxMails, ok \in BOOLEAN : SendMailDone(i, ok)
    \/ Cleanup

SpecMail == InitMail /\ [][NextMail]_vars

\* the task file at start: absent, not parseable, or holding no task or one
InitLoad ==
    /\ now = T0
    /\ ctx = TRUE
    /\ timers = startScheduledEmailChecker({}, 0)[1]
    /\ intervals = startScheduledEmailChecker({}, 0)[2]
    /\ sends = <<>>
    /\ requests = 0
    /\ reply = NoReply
    /\ taskFile \in {"ok", "absent", "unparseable"}
    /\ taskWritable = TRUE
    /\ historyWritable = TRUE
    /\ config = DEFAULT_CONFIG
    /\ mails = <<>>
    /\ tz = "UTC"
    /\ sinceTick = 0
    /\ scheduledEmails \in
          {<<>>} \cup
          {createScheduledEmail(<<>>, params, 1) :
              params \in {p \in SiblingParams(T0) :
                            /\ taskFile = "ok"
                            /\ OwnFields(p)
                            /\ validateScheduledEmailParams(p, T0)}}
    /\ history = <<>>
    /\ execs = <<>>
    /\ dispatched = 0
    /\ idCounter = Len(scheduledEmails)
    /\ updates = 0

NextLoad ==
    \/ List
    \/ \E id \in 1..MaxTasks : GetById(id)
    \/ \E id \in 1..MaxTasks : ExecuteNow(id)
    \/ \E i \in 1..MaxExec, sent \in BOOLEAN : Complete(i, sent)
    \/ Cleanup

SpecLoad == InitLoad /\ [][NextLoad]_vars

\* the tasks found in the store when the checker starts: once, daily and
\* interval tasks, due a minute ago or in a minute, with a cap or without
LiveTasks ==
    {createScheduledEmail(<<>>, params, generateId(0)) :
        params \in {p \in CreateParams(T0) :
                      /\ p.scheduleType \in {"once", "daily", "interval"}
                      /\ p.scheduledAt # InvalidDate
                      /\ p.maxSendCount \in {Undefined, 1}
                      /\ p.intervalMinutes = 1 <=> p.scheduleType = "interval"
                      /\ OwnFields(p)}}

InitLive ==
    /\ now = T0
    /\ ctx = TRUE
    /\ timers = startScheduledEmailChecker({}, 0)[1]
    /\ intervals = startScheduledEmailChecker({}, 0)[2]
    /\ sends = <<>>
    /\ requests = 0
    /\ reply = NoReply
    /\ taskFile = "ok"
    /\ taskWritable = TRUE
    /\ historyWritable = TRUE
    /\ config = DEFAULT_CONFIG
    /\ mails = <<>>
    /\ tz = "UTC"
    /\ sinceTick = 0
    /\ scheduledEmails \in LiveTasks
    /\ history = <<>>
    /\ execs = <<>>
    /\ dispatched = 0
    /\ idCounter = 1
    /\ updates = 0

Settle == \E i \in 1..MaxExec, sent \in BOOLEAN : Complete(i, sent)

NextLive ==
    \/ Tock
    \/ Tick
    \/ Settle
    \/ \E id \in Ids : Cancel(id)
    \/ \E id \in Ids : Delete(id)

\* the clock advances, the interval timer fires whenever its period has
\* elapsed, and the transport answers every request
SpecLive ==
    /\ InitLive
    /\ [][NextLive]_vars
    /\ WF_vars(Tock)
    /\ WF_vars(Tick)
    /\ WF_vars(Settle)

\* ------------------------------------------------------------ SpecSave
\* fs.writeFileSync on scheduled_emails.json starts or stops failing (disk
\* full, file made read-only)
DiskFault ==
    /\ taskWritable' = ~taskWritable
    /\ UNCHANGED <<reply, taskFile, historyWritable, config, mails, tz, sends, requests, intervals, now, ctx, timers, sinceTick, scheduledEmails, history, execs, dispatched, idCounter, updates>>

\* one stored task run by the checker while writes of the task file may
\* fail
NextSave ==
    \/ Tock
    \/ Tick
    \/ Settle
    \/ DiskFault

SpecSave == InitLive /\ [][NextSave]_vars

\* -------------------------------------------------------- SpecAccounts
\* the ids generateAccountId may return
AccountIds == {"A", "B", "C"}

\* the bodies of a create-account and of an update-account request, as far
\* as the default flag goes
CreateAccountParams == [name : {"first"}] \cup [name : {"first"}, isDefault : BOOLEAN]

UpdateAccountParams ==
    [name : {"renamed"}] \cup [isDefault : BOOLEAN] \cup [name : {"renamed"}, isDefault : BOOLEAN]

\* the body carries the field (params.field !== undefined)
Given(params, field) == field \in DOMAIN params

\* params.isDefault is truthy
MakeDefault(params) == Given(params, "isDefault") /\ params.isDefault

\* for (const acc of this.config.emailAccounts) acc.isDefault = false
clearDefault(accounts) ==
    [n \in 1..Len(accounts) |-> [accounts[n] EXCEPT !.isDefault = FALSE]]

\* the position of the account with the id, 0 when there is none
accountIndex(accounts, id) ==
    IF \E n \in 1..Len(accounts) : accounts[n].id = id
    THEN CHOOSE n \in 1..Len(accounts) :
            /\ accounts[n].id = id
            /\ \A m \in 1..(n - 1) : accounts[m].id # id
    ELSE 0

\* PluginState.createEmailAccount with the id generated
createEmailAccount(cfg, params, id) ==
    LET isFirstAccount == Len(cfg.emailAccounts) = 0
        isDefault == IF Given(params, "isDefault") THEN params.isDefault
                     ELSE isFirstAccount
        account == [id |-> id, name |-> params.name, isDefault |-> isDefault]
    IN  [cfg EXCEPT !.emailAccounts = Append(IF isDefault THEN clearDefault(@) ELSE @,
                                             account),
                    !.defaultAccountId = IF isDefault THEN id ELSE @]

\* PluginState.updateEmailAccount
updateEmailAccount(cfg, id, params) ==
    LET index == accountIndex(cfg.emailAccounts, id)
    IN  IF index = 0 THEN cfg
        ELSE LET accounts == IF MakeDefault(params)
                             THEN clearDefault(cfg.emailAccounts)
                             ELSE cfg.emailAccounts
                 account == [accounts[index] EXCEPT
                                !.name = IF Given(params, "name") THEN params.name ELSE @,
                                !.isDefault = IF Given(params, "isDefault")
                                              THEN params.isDefault ELSE @]
             IN  [cfg EXCEPT !.emailAccounts = [accounts EXCEPT ![index] = account],
                             !.defaultAccountId = IF MakeDefault(params) THEN id ELSE @]

\* PluginState.deleteEmailAccount; "" stands for a defaultAccountId of null
deleteEmailAccount(cfg, id) ==
    LET index == accountIndex(cfg.emailAccounts, id)
    IN  IF index = 0 THEN cfg
        ELSE LET rest == SubSeq(cfg.emailAccounts, 1, index - 1)
                         \o SubSeq(cfg.emailAccounts, index + 1, Len(cfg.emailAccounts))
             IN  IF cfg.defaultAccountId # id
                 THEN [cfg EXCEPT !.emailAccounts = rest]
                 ELSE IF Len(rest) > 0
                 THEN [cfg EXCEPT !.emailAccounts = [rest EXCEPT ![1].isDefault = TRUE],
                                  !.defaultAccountId = rest[1].id]
                 ELSE [cfg EXCEPT !.emailAccounts = rest, !.defaultAccountId = ""]

\* PluginState.setDefaultEmailAccount
setDefaultEmailAccount(cfg, id) ==
    LET index == accountIndex(cfg.emailAccounts, id)
    IN  IF index = 0 THEN cfg
        ELSE [cfg EXCEPT !.emailAccounts = [clearDefault(@) EXCEPT ![index].isDefault = TRUE],
                         !.defaultAccountId = id]

\* the account requests leave everything but the configuration alone
AccountRequest(cfg) ==
    /\ config' = cfg
    /\ UNCHANGED <<reply, taskFile, taskWritable, historyWritable, mails, tz, sends, requests, intervals, now, ctx, timers, sinceTick, scheduledEmails, history, execs, dispatched, idCounter, updates>>

CreateAccount(params, id) ==
    /\ Len(config.emailAccounts) < MaxAccounts
    /\ \A n \in 1..Len(config.emailAccounts) : config.emailAccounts[n].id # id
    /\ AccountRequest(createEmailAccount(config, params, id))

UpdateAccount(id, params) ==
    /\ accountIndex(config.emailAccounts, id) # 0
    /\ AccountRequest(updateEmailAccount(config, id, params))

DeleteAccount(id) ==
    /\ accountIndex(config.emailAccounts, id) # 0
    /\ AccountRequest(deleteEmailAccount(config, id))

SetDefaultAccount(id) ==
    /\ accountIndex(config.emailAccounts, id) # 0
    /\ AccountRequest(setDefaultEmailAccount(config, id))

NextAccounts ==
    \/ \E params \in CreateAccountParams, id \in AccountIds : CreateAccount(params, id)
    \/ \E id \in AccountIds, params \in UpdateAccountParams : UpdateAccount(id, params)
    \/ \E id \in AccountIds : DeleteAccount(id)
    \/ \E id \in AccountIds : SetDefaultAccount(id)

\* the account list is empty when the plugin starts without a configuration
SpecAccounts == Init /\ [][NextAccounts]_vars

\* ---------------------------------------------------------------- helpers

Stored(emails, id) == FindIndex(emails, id) # 0

\* getScheduledEmailById(id), for an id that is stored
TaskOf(emails, id) == emails[FindIndex(emails, id)]

Recurring(email) == email.scheduleType \in {"daily", "weekly", "monthly", "interval"}

HasCap(email) == email.maxSendCount # Null /\ email.maxSendCount # Undefined

\* the scheduled sends recorded as successful for a task
SuccessCount(h, id) ==
    Cardinality({k \in 1..Len(h) : /\ h[k].sendType = "scheduled"
                                   /\ h[k].status = "success"
                                   /\ h[k].scheduledEmailId = id})

\* execute(task) returns {success: true}: the transport accepted the message
\* and the continuation ran to its end
Succeeds(email, sent) == ctx /\ sent /\ ~NextThrows(AfterSuccess(email, now))

\* ------------------------------------------------------------------- C1
\* C1: for a once task, a successful execution leaves the stored status
\* sent, and once the task has a successful send on record no execution
\* dispatched by the scheduler adds another scheduled history record for it.
C1_OnceNeverResent ==
    [][\A i \in 1..Len(execs), sent \in BOOLEAN :
        (Complete(i, sent) /\ execs[i].email.scheduleType = "once") =>
            /\ (Succeeds(execs[i].email, sent) /\ Stored(scheduledEmails', execs[i].id))
                  => TaskOf(scheduledEmails', execs[i].id).status = "sent"
            /\ (execs[i].by = "tick" /\ history' # history)
                  => SuccessCount(history, execs[i].id) = 0]_vars

\* ------------------------------------------------------------------- C2
\* C2: cancel sets the stored status to cancelled; afterwards no tick
\* dispatches the task, and the completion of an execution that was in
\* flight when the cancel was written (it started from the pending task)
\* leaves the status cancelled.
C2_CancelSticks ==
    [][/\ \A id \in Ids : Cancel(id) => TaskOf(scheduledEmails', id).status = "cancelled"
       /\ Tick => \A k \in (Len(execs) + 1)..Len(execs') :
                      execs'[k].email.status # "cancelled"
       /\ \A i \in 1..Len(execs), sent \in BOOLEAN :
            (/\ Complete(i, sent)
             /\ execs[i].email.status = "pending"
             /\ Stored(scheduledEmails, execs[i].id)
             /\ TaskOf(scheduledEmails, execs[i].id).status = "cancelled")
            => TaskOf(scheduledEmails', execs[i].id).status = "cancelled"]_vars

\* ------------------------------------------------------------------- C3
\* C3: a successful execution of a recurring task with maxSendCount = N
\* stores status sent exactly when the stored sendCount has reached N, and
\* the scheduler never performs a send for it once N sends are on record.
C3_CapEnforced ==
    [][\A i \in 1..Len(execs) :
        (/\ Complete(i, TRUE)
         /\ Succeeds(execs[i].email, TRUE)
         /\ Recurring(execs[i].email)
         /\ HasCap(execs[i].email)
         /\ execs[i].email.status = "pending") =>
            /\ Stored(scheduledEmails', execs[i].id) =>
                  LET t == TaskOf(scheduledEmails', execs[i].id)
                  IN  t.status = "sent" <=> t.sendCount >= t.maxSendCount
            /\ execs[i].by = "tick" =>
                  SuccessCount(history, execs[i].id) < execs[i].email.maxSendCount]_vars

\* ------------------------------------------------------------------- C4
\* C4: once a stored task is sent or cancelled its status never changes.
C4_TerminalStatus ==
    [][\A id \in Ids :
        (/\ Stored(scheduledEmails, id)
         /\ TaskOf(scheduledEmails, id).status \in {"sent", "cancelled"}
         /\ Stored(scheduledEmails', id))
        => TaskOf(scheduledEmails', id).status = TaskOf(scheduledEmails, id).status]_vars

\* ------------------------------------------------------------------- C5
\* C5: the completion of every execution puts exactly one new record at
\* the head of the history: type scheduled, the task's id, status success
\* exactly when the send succeeded.
C5_OneRecordPerExecution ==
    [][\A i \in 1..Len(execs), sent \in BOOLEAN :
        Complete(i, sent) =>
            history' = <<HistoryRecord("scheduled",
                                       IF sent THEN "success" ELSE "failed",
                                       execs[i].id)>> \o history]_vars

\* ------------------------------------------------------------------- C6
\* C6: a tick never dispatches a task that still has an execution in
\* flight: of two executions of one task in flight together, the later one
\* was not dispatched by a tick.
C6_NoReentrantDispatch ==
    \A j, k \in 1..Len(execs) :
        (j < k /\ execs[j].id = execs[k].id) => execs[k].by # "tick"

\* ------------------------------------------------------------------- C7
\* C7: a failed execution of a pending task leaves the stored task failed
\* with the diagnostic, its sendCount and scheduledAt as they were, and a
\* failed task leaves that status only through an update.
C7_FailedStaysFailed ==
    [][/\ \A i \in 1..Len(execs) :
            (/\ Complete(i, FALSE)
             /\ ctx
             /\ execs[i].email.status = "pending"
             /\ Stored(scheduledEmails, execs[i].id)) =>
                LET old == TaskOf(scheduledEmails, execs[i].id)
                    new == TaskOf(scheduledEmails', execs[i].id)
                IN  /\ new.status = "failed"
                    /\ new.errorMessage = "send failed"
                    /\ new.sendCount = old.sendCount
                    /\ new.scheduledAt = old.scheduledAt
       /\ \A id \in Ids :
            (/\ Stored(scheduledEmails, id)
             /\ TaskOf(scheduledEmails, id).status = "failed"
             /\ Stored(scheduledEmails', id)
             /\ TaskOf(scheduledEmails', id).status = "pending")
            => updates' # updates]_vars

\* ------------------------------------------------------------------- C8
\* C8 as stated: after a successful execute the stored task has lastSentAt
\* at the execution time, sendCount one above the executed task's, no
\* errorMessage, and status sent for a once task or a reached cap and
\* pending otherwise.
C8_SuccessLeavesPending ==
    [][\A i \in 1..Len(execs) :
        (/\ Complete(i, TRUE)
         /\ Succeeds(execs[i].email, TRUE)
         /\ Stored(scheduledEmails', execs[i].id)) =>
            LET e == execs[i].email
                t == TaskOf(scheduledEmails', execs[i].id)
            IN  /\ t.lastSentAt = now
                /\ t.sendCount = e.sendCount + 1
                /\ t.errorMessage = ""
                /\ t.status = IF \/ e.scheduleType = "once"
                                 \/ (HasCap(e) /\ e.sendCount + 1 >= e.maxSendCount)
                              THEN "sent" ELSE "pending"]_vars

\* C8 amended: as above, but otherwise the status is the one the executed
\* task had (pending only when it was pending).
C8_SuccessKeepsStatus ==
    [][\A i \in 1..Len(execs) :
        (/\ Complete(i, TRUE)
         /\ Succeeds(execs[i].email, TRUE)
         /\ Stored(scheduledEmails', execs[i].id)) =>
            LET e == execs[i].email
                t == TaskOf(scheduledEmails', execs[i].id)
            IN  /\ t.lastSentAt = now
                /\ t.sendCount = e.sendCount + 1
                /\ t.errorMessage = ""
                /\ t.status = IF \/ e.scheduleType = "once"
                                 \/ (HasCap(e) /\ e.sendCount + 1 >= e.maxSendCount)
                              THEN "sent" ELSE e.status]_vars

\* a failed task has been executed successfully: its status is still
\* failed, its errorMessage cleared
C8_Witness ==
    \E id \in Ids :
        /\ Stored(scheduledEmails, id)
        /\ TaskOf(scheduledEmails, id).status = "failed"
        /\ TaskOf(scheduledEmails, id).errorMessage = ""
        /\ TaskOf(scheduledEmails, id).sendCount >= 1
        /\ SuccessCount(history, id) >= 1

\* ------------------------------------------------------------------- C9
\* C9 as stated: every execution of a recurring task leaves a scheduledAt
\* equal to or later than the one the task had.
C9_NeverDecreases ==
    [][\A i \in 1..Len(execs), sent \in BOOLEAN :
        (/\ Complete(i, sent)
         /\ ctx
         /\ Recurring(execs[i].email)
         /\ execs[i].email.scheduledAt # InvalidDate
         /\ Stored(scheduledEmails', execs[i].id)) =>
            TaskOf(scheduledEmails', execs[i].id).scheduledAt
                >= execs[i].email.scheduledAt]_vars

\* C9 amended: that holds for daily, weekly and monthly tasks, and for an
\* interval task whose scheduledAt had been reached when the execution
\* completed.
C9_NeverDecreasesWhenDue ==
    [][\A i \in 1..Len(execs), sent \in BOOLEAN :
        (/\ Complete(i, sent)
         /\ ctx
         /\ Recurring(execs[i].email)
         /\ execs[i].email.scheduledAt # InvalidDate
         /\ (execs[i].email.scheduleType = "interval"
                => execs[i].email.scheduledAt <= now)
         /\ Stored(scheduledEmails', execs[i].id)) =>
            TaskOf(scheduledEmails', execs[i].id).scheduledAt
                >= execs[i].email.scheduledAt]_vars

\* a monthly task scheduled in December has been sent and moved on
C9_Witness ==
    \E id \in Ids :
        /\ Stored(scheduledEmails, id)
        /\ TaskOf(scheduledEmails, id).scheduleType = "monthly"
        /\ TaskOf(scheduledEmails, id).sendCount >= 1
        /\ TaskOf(scheduledEmails, id).scheduledAt > now

\* ------------------------------------------------------------------ C10
\* C10: every execution a tick dispatches is of a task that the store, as
\* the tick read it, holds as pending with scheduledAt at or before now.
C10_TickDispatchesOnlyDue ==
    [][\A k \in 1..Len(execs') :
        (k > Len(execs) /\ execs'[k].by = "tick") =>
            /\ \E n \in 1..Len(scheduledEmails) : scheduledEmails[n] = execs'[k].email
            /\ execs'[k].email.status = "pending"
            /\ execs'[k].email.scheduledAt # InvalidDate
            /\ execs'[k].email.scheduledAt <= now]_vars

\* a tick has dispatched an execution that is still in flight
C10_Witness ==
    \E k \in 1..Len(execs) :
        /\ execs[k].by = "tick"
        /\ execs[k].email.status = "pending"
        /\ execs[k].email.scheduledAt <= now

\* ---------------------------------------------------------- helpers (2)

\* the last response is that of POST /scheduled-emails
Validated == reply.op = "create"

\* t is a time, neither absent nor an invalid date
IsTime(t) == t \notin {Undefined, InvalidDate}

\* ------------------------------------------------------------------ C11
\* C11: every manual or test send that completes, whether requested over
\* HTTP or by chat command, puts one record of its sendType at the head of
\* the history, with status success exactly when the send succeeded, and
\* leaves the task store as it was.
C11_EverySendRecorded ==
    [][\A i \in 1..Len(sends), sent \in BOOLEAN :
        SendComplete(i, sent) =>
            /\ history' = <<HistoryRecord(sends[i].sendType,
                                          IF sent THEN "success" ELSE "failed",
                                          Undefined)>> \o history
            /\ scheduledEmails' = scheduledEmails]_vars

\* ------------------------------------------------------------------ C12
\* C12: once the plugin is cleaned up no tick dispatches an execution, and
\* every execution in flight at that time still completes with its history
\* record and its outcome in the task store: sendCount one higher after a
\* successful send, status failed after a failed one.
C12_InFlightSurvivesCleanup ==
    [][/\ ~ctx => \A k \in (Len(execs) + 1)..Len(execs') : execs'[k].by # "tick"
       /\ \A i \in 1..Len(execs), sent \in BOOLEAN :
            (Complete(i, sent) /\ ~ctx) =>
                /\ Len(history') = Len(history) + 1
                /\ history'[1].scheduledEmailId = execs[i].id
                /\ Stored(scheduledEmails, execs[i].id) =>
                      LET t == TaskOf(scheduledEmails', execs[i].id)
                      IN  IF sent /\ ~NextThrows(AfterSuccess(execs[i].email, now))
                          THEN t.sendCount = execs[i].email.sendCount + 1
                          ELSE t.status = "failed"]_vars

\* ------------------------------------------------------------------ C13
\* C13: at most one checker interval is active and at most one is
\* registered; start with the checker registered changes nothing, and stop
\* with none registered changes nothing.
C13_AtMostOneTimer ==
    /\ intervals <= 1
    /\ Cardinality(timers) = intervals
    /\ "scheduledEmailChecker" \in timers =>
          startScheduledEmailChecker(timers, intervals) = <<timers, intervals>>
    /\ "scheduledEmailChecker" \notin timers =>
          stopScheduledEmailChecker(timers, intervals) = <<timers, intervals>>

\* the plugin runs again with one checker after a cleanup: the execution
\* dispatched before the cleanup ended without a trace while it was down
C13_Witness ==
    /\ ctx
    /\ "scheduledEmailChecker" \in timers
    /\ intervals = 1
    /\ dispatched > 0
    /\ execs = <<>>
    /\ history = <<>>

\* ------------------------------------------------------------------ C14
\* C14: a tick dispatches an execution for every due task, and the
\* completion of one execution, whatever its outcome, leaves every other
\* task's stored record and every other execution in flight as they were
\* and the checker running.
C14_SiblingsIndependent ==
    [][/\ Tick => \A n \in 1..Len(scheduledEmails) :
                      IsDue(scheduledEmails[n], now) =>
                          \E k \in (Len(execs) + 1)..Len(execs') :
                              /\ execs'[k].email = scheduledEmails[n]
                              /\ execs'[k].by = "tick"
       /\ \A i \in 1..Len(execs), sent \in BOOLEAN :
            Complete(i, sent) =>
                /\ Len(scheduledEmails') = Len(scheduledEmails)
                /\ \A n \in 1..Len(scheduledEmails) :
                      scheduledEmails[n].id # execs[i].id
                          => scheduledEmails'[n] = scheduledEmails[n]
                /\ execs' = SubSeq(execs, 1, i - 1) \o SubSeq(execs, i + 1, Len(execs))
                /\ timers' = timers
                /\ intervals' = intervals]_vars

\* one tick dispatched two tasks: the execution of one has failed, and the
\* other task has been sent and moved on
C14_Witness ==
    /\ now = T0 + 1
    /\ \E a, b \in 1..Len(scheduledEmails) :
          /\ scheduledEmails[a].id # scheduledEmails[b].id
          /\ scheduledEmails[a].status = "failed"
          /\ scheduledEmails[b].status = "pending"
          /\ scheduledEmails[b].sendCount = 1
          /\ scheduledEmails[b].scheduledAt > now

\* ------------------------------------------------------------------ C15
\* C15 as stated: after a successful execution of an interval task that
\* ran later than scheduled, the stored scheduledAt is the time of the
\* execution plus intervalMinutes.
C15_IntervalFromWallClock ==
    [][\A i \in 1..Len(execs) :
        (/\ Complete(i, TRUE)
         /\ Succeeds(execs[i].email, TRUE)
         /\ execs[i].email.scheduleType = "interval"
         /\ execs[i].email.intervalMinutes # Undefined
         /\ execs[i].email.scheduledAt # InvalidDate
         /\ now > execs[i].email.scheduledAt
         /\ Stored(scheduledEmails', execs[i].id)) =>
            TaskOf(scheduledEmails', execs[i].id).scheduledAt
                = now + execs[i].email.intervalMinutes]_vars

\* C15 amended: that holds for an interval task whose intervalMinutes is
\* greater than 0; with intervalMinutes 0 the scheduledAt stays as it was.
C15_PositiveIntervalFromWallClock ==
    [][\A i \in 1..Len(execs) :
        (/\ Complete(i, TRUE)
         /\ Succeeds(execs[i].email, TRUE)
         /\ execs[i].email.scheduleType = "interval"
         /\ execs[i].email.scheduledAt # InvalidDate
         /\ now > execs[i].email.scheduledAt
         /\ Stored(scheduledEmails', execs[i].id)) =>
            TaskOf(scheduledEmails', execs[i].id).scheduledAt
                = IF execs[i].email.intervalMinutes > 0
                  THEN now + execs[i].email.intervalMinutes
                  ELSE execs[i].email.scheduledAt]_vars

\* an interval task created overdue has been sent: its next run is counted
\* from the time of the send
C15_Witness ==
    \E id \in Ids :
        /\ Stored(scheduledEmails, id)
        /\ TaskOf(scheduledEmails, id).scheduleType = "interval"
        /\ TaskOf(scheduledEmails, id).intervalMinutes > 0
        /\ TaskOf(scheduledEmails, id).sendCount >= 1
        /\ TaskOf(scheduledEmails, id).scheduledAt
              = TaskOf(scheduledEmails, id).lastSentAt
                + TaskOf(scheduledEmails, id).intervalMinutes

Skipped(zone, l) == zone = "Europe/London" /\ l >= Transition /\ l < Transition + 60

C17_HistoryCapped ==
    [][/\ Len(history) <= MAX_HISTORY_SIZE
       /\ Len(history') <= MAX_HISTORY_SIZE
       /\ history' # history =>
            /\ Len(history') = Min(Len(history) + 1, MAX_HISTORY_SIZE)
            /\ \A k \in 2..Len(history') : history'[k] = history[k - 1]]_vars

\* a record has been added to a history of 1000: the record that was the
\* newest is now the second of 1000
C17_Witness ==
    /\ Len(history) = MAX_HISTORY_SIZE
    /\ history[1] = HistoryRecord("manual", "failed", Undefined)
    /\ history[2] = HistoryOf(MAX_HISTORY_SIZE)[1]

\* ------------------------------------------------------------------ C18
\* the records of h of the given sendType and status, in their order
Filtered(h, sendType, status) ==
    SelectSeq(h, LAMBDA r : /\ sendType # "undefined" => r.sendType = sendType
                            /\ status # "undefined" => r.status = status)

\* the page sizes tried
PageSizes == {1, 10, 20}

\* C18: for page p >= 1 and pageSize s, getHistory returns the records at
\* positions (p-1)*s up to p*s of the history filtered by sendType and
\* status, and total is the number of filtered records; of 25 records with
\* pageSize 10, page 2 holds 10, page 3 holds 5 and total is 25.
C18_FilterThenPaginate ==
    /\ \A sendType \in {"undefined", "manual", "test", "scheduled"},
          status \in {"undefined", "success", "failed"} :
          LET filtered == Filtered(history, sendType, status)
          IN  \A p \in 1..MaxPage, s \in PageSizes :
                LET result == getHistory(history, p, s, sendType, status)
                IN  /\ result.total = Len(filtered)
                    /\ Len(result.list) = Max(0, Min(s, Len(filtered) - (p - 1) * s))
                    /\ \A j \in 1..Len(result.list) :
                          result.list[j] = filtered[(p - 1) * s + j]
    /\ Len(history) = 25 =>
          /\ Len(getHistory(history, 2, 10, "undefined", "undefined").list) = 10
          /\ Len(getHistory(history, 3, 10, "undefined", "undefined").list) = 5
          /\ getHistory(history, 3, 10, "undefined", "undefined").total = 25

\* a manual send has been recorded on top of 24 records: the third page
\* of ten is the last five
C18_Witness ==
    /\ Len(history) = 25
    /\ history[1] = HistoryRecord("manual", "success", Undefined)
    /\ history[2] = HistoryOf(24)[1]
    /\ getHistory(history, 3, 10, "undefined", "undefined").list = SubSeq(history, 21, 25)
    /\ getHistory(history, 1, 10, "manual", "undefined").total < 25

\* ------------------------------------------------------------------ C19
\* the rules a task has to meet to be created at time clock
ValidAt(task, clock) ==
    /\ task.scheduledAt # InvalidDate
    /\ task.scheduleType = "once" => task.scheduledAt > clock
    /\ task.scheduleType = "interval" => task.intervalMinutes >= 1
    /\ task.scheduleType = "weekly" => task.weekday \in 0..6
    /\ task.scheduleType = "monthly" => task.dayOfMonth \in 1..31
    /\ task.maxSendCount = Null \/ task.maxSendCount >= 1

C20_UpdateTouchesOnlyGivenFields ==
    [][\A id \in 1..MaxSiblings, params \in UpdateParams(now) :
        Update(id, params) =>
            IF ~Stored(scheduledEmails, id) THEN scheduledEmails' = scheduledEmails
            ELSE /\ Len(scheduledEmails') = Len(scheduledEmails)
                 /\ \A n \in 1..Len(scheduledEmails) :
                       scheduledEmails[n].id # id => scheduledEmails'[n] = scheduledEmails[n]
                 /\ LET old == TaskOf(scheduledEmails, id)
                        new == TaskOf(scheduledEmails', id)
                    IN  /\ \A f \in {"id", "weekday", "dayOfMonth", "sendCount",
                                      "lastSentAt", "errorMessage"} : new[f] = old[f]
                        /\ \A f \in {"scheduleType", "status"} :
                              new[f] = IF params[f] = "undefined" THEN old[f] ELSE params[f]
                        /\ \A f \in {"scheduledAt", "intervalMinutes", "maxSendCount"} :
                              new[f] = IF params[f] = Undefined THEN old[f] ELSE params[f]]_vars

\* a task that had been sent once got a maxSendCount of 1 by update, beside
\* another task: it is still pending with its sendCount
C20_Witness ==
    /\ updates = 1
    /\ Len(scheduledEmails) = 2
    /\ \E n \in 1..2 :
          /\ scheduledEmails[n].maxSendCount = 1
          /\ scheduledEmails[n].sendCount = 1
          /\ scheduledEmails[n].status = "pending"

\* ------------------------------------------------------------------ C21
\* C21: delete takes the task out of the store and leaves the others as
\* they were; an id that has been generated and is not in the store never
\* enters it again, whatever completes afterwards; delete of an id that is
\* not stored leaves the store as it is.
C21_DeleteIsPermanent ==
    [][\A id \in 1..MaxSiblings :
        /\ Delete(id) =>
              /\ ~Stored(scheduledEmails', id)
              /\ scheduledEmails' = SelectSeq(scheduledEmails, LAMBDA e : e.id # id)
        /\ (id <= idCounter /\ ~Stored(scheduledEmails, id)) =>
              /\ ~Stored(scheduledEmails', id)
              /\ deleteScheduledEmail(scheduledEmails, id) = scheduledEmails]_vars

\* a task has been deleted while an execution of it, dispatched by a
\* tick, is still in flight
C21_Witness ==
    \E k \in 1..Len(execs) :
        /\ execs[k].by = "tick"
        /\ execs[k].id <= idCounter
        /\ ~Stored(scheduledEmails, execs[k].id)

\* ------------------------------------------------------------------ C22
\* no two tasks of the store have the same id
UniqueIds(emails) ==
    \A a, b \in 1..Len(emails) : a # b => emails[a].id # emails[b].id

\* the tasks stored before the step are stored after it in the same places
\* with the same ids
IdsKept ==
    /\ Len(scheduledEmails') >= Len(scheduledEmails)
    /\ \A n \in 1..Len(scheduledEmails) : scheduledEmails'[n].id = scheduledEmails[n].id

C23_OnceInPastRejectedAsPast ==
    (/\ Validated
     /\ reply.params.scheduleType = "once"
     /\ IsTime(reply.params.scheduledAt)
     /\ reply.params.scheduledAt <= reply.at)
        => /\ ~reply.valid
           /\ reply.message = "time of a once task must be in the future"

\* C23, amended: validate rejects every once body whose scheduledAt is
\* absent, invalid or not later than the clock.  The message says that the
\* time must be in the future when name, recipients and subject pass their
\* checks and scheduledAt is a valid time; otherwise it is the message of
\* the earlier check that failed.
C23_OnceInPastRejected ==
    (Validated /\ reply.params.scheduleType = "once") =>
        /\ ~(IsTime(reply.params.scheduledAt) /\ reply.params.scheduledAt > reply.at)
              => ~reply.valid
        /\ (/\ IsTime(reply.params.scheduledAt)
            /\ reply.params.scheduledAt <= reply.at)
              => reply.message =
                    IF textMessage(reply.params) = ""
                    THEN "time of a once task must be in the future"
                    ELSE textMessage(reply.params)

\* a once body due exactly now was rejected as not in the future
C23_Witness ==
    /\ Validated
    /\ reply.params.scheduleType = "once"
    /\ reply.params.scheduledAt = reply.at
    /\ ~reply.valid
    /\ reply.message = "time of a once task must be in the future"

\* ------------------------------------------------------------------ C24
\* the body breaks one of the four rules of C24; a null field counts as
\* absent, as it does for maxSendCount
BreaksRule(params) ==
    \/ /\ params.scheduleType = "interval"
       /\ (params.intervalMinutes \in {Undefined, Null} \/ params.intervalMinutes <= 0)
    \/ /\ params.scheduleType = "weekly"
       /\ params.weekday \notin 0..6
    \/ /\ params.scheduleType = "monthly"
       /\ params.dayOfMonth \notin 1..31
    \/ /\ params.maxSendCount \notin {Undefined, Null}
       /\ params.maxSendCount <= 0

\* C24: validate rejects an interval body whose intervalMinutes is absent
\* or not greater than 0, a weekly body whose weekday is absent or outside
\* 0..6, a monthly body whose dayOfMonth is absent or outside 1..31, and any
\* body whose maxSendCount is present and not greater than 0; a body that
\* keeps these rules (and passes the checks of name, recipients, subject
\* and time) is accepted.
C24_FieldRules ==
    Validated =>
        /\ BreaksRule(reply.params) => ~reply.valid
        /\ (/\ ~BreaksRule(reply.params)
            /\ textMessage(reply.params) = ""
            /\ timeMessage(reply.params, reply.at) = "")
              => reply.valid

\* ------------------------------------------------------------------ C25
\* the SMTP settings of an account
SettingsOf(account) ==
    [host |-> account.host, port |-> account.port, user |-> account.user,
     pass |-> account.pass]

\* the account the order of C25 resolves: the one named, else the default
ResolvedAccount(cfg, accountId) ==
    IF accountId # "" /\ Len(getEmailAccountById(cfg, accountId)) > 0
    THEN getEmailAccountById(cfg, accountId)
    ELSE getDefaultEmailAccount(cfg)

\* C25: every call of sendEmail uses the settings of the account named by
\* its accountId when one is given, otherwise those of the configured
\* default account; when there is neither it makes no transport call and
\* returns a failure saying that there is no account.
C25_AccountResolved ==
    \A i \in 1..Len(mails) :
        LET account == ResolvedAccount(config, mails[i].accountId)
        IN  IF Len(account) = 0
            THEN /\ mails[i].calls = <<>>
                 /\ mails[i].pc = "resolved"
                 /\ ~mails[i].result.success
                 /\ mails[i].result.message = "no account"
            ELSE mails[i].smtp = SettingsOf(account[1])

\* ------------------------------------------------------------------ C26
\* the first field of the settings that fails validation, "" if none does
FirstBadField(smtp) ==
    IF smtp.host = "" THEN "SMTP host must not be empty"
    ELSE IF smtp.port \notin 1..65535 THEN "SMTP port invalid"
    ELSE IF smtp.user = "" THEN "user must not be empty"
    ELSE IF smtp.pass = "" THEN "pass must not be empty"
    ELSE ""

C27_VerifyBeforeSend ==
    \A i \in 1..Len(mails) :
        /\ (\E n \in 1..Len(mails[i].calls) : mails[i].calls[n] = "sendMail")
              => /\ mails[i].verified = "ok"
                 /\ mails[i].calls = <<"verify", "sendMail">>
        /\ mails[i].verified = "failed"
              => /\ mails[i].calls = <<"verify">>
                 /\ mails[i].pc = "resolved"
                 /\ mails[i].result = [success |-> FALSE, message |-> "verify failed"]

\* ------------------------------------------------------------------ C28
\* C28: no call of sendEmail throws or rejects: each one is in flight or
\* has resolved with a {success, message} decision, also when the plugin
\* was cleaned up while it was in flight.
C28_SendNeverRejects ==
    \A i \in 1..Len(mails) : mails[i].pc # "rejected"

\* ------------------------------------------------------------------ C29
\* C29: loading the task store never throws, neither for a request nor in
\* the continuation of an execution; when the task file is absent or cannot
\* be parsed the list is empty and no task is found by id.
C29_LoadNeverThrows ==
    [][/\ \A i \in 1..Len(execs), sent \in BOOLEAN :
            Complete(i, sent) => ~getScheduledEmails.threw
       /\ (List \/ \E id \in 1..MaxTasks : GetById(id)) =>
            /\ ~reply'.threw
            /\ taskFile # "ok" => reply'.value = <<>>]_vars

\* ------------------------------------------------------------------ C30
\* C30: when writing the history file fails, a send that resolves still
\* puts its record at the head of the in-memory history (addRecord returns
\* it), and the caller is answered with the result of the send itself:
\* success for a send that succeeded.
C30_HistoryBestEffort ==
    [][\A i \in 1..Len(mails') :
        (/\ ~historyWritable
         /\ mails'[i].pc = "resolved"
         /\ (i > Len(mails) \/ mails[i].pc # "resolved"))
        => /\ history' = <<HistoryRecord("manual",
                                         IF mails'[i].result.success
                                         THEN "success" ELSE "failed",
                                         Undefined)>> \o history
           /\ reply' = [op |-> "send", success |-> mails'[i].result.success,
                        message |-> mails'[i].result.message]]_vars

\* with the history file not writable a send succeeded, was recorded and
\* was reported as a success
C30_Witness ==
    /\ ~historyWritable
    /\ reply = [op |-> "send", success |-> TRUE, message |-> "sent"]
    /\ Len(history) > 0
    /\ history[1].status = "success"
    /\ \E i \in 1..Len(mails) : mails[i].pc = "resolved" /\ mails[i].result.success

DueTimes == (T0 - 1)..(T0 + MaxTime)

\* the task is stored, pending and due with scheduledAt = v
DueAt(id, v) ==
    /\ Stored(scheduledEmails, id)
    /\ TaskOf(scheduledEmails, id).scheduledAt = v
    /\ IsDue(TaskOf(scheduledEmails, id), now)

\* the task was executed or taken away: deleted, no longer pending, or
\* scheduled later than v
Handled(id, v) ==
    \/ ~Stored(scheduledEmails, id)
    \/ TaskOf(scheduledEmails, id).status # "pending"
    \/ TaskOf(scheduledEmails, id).scheduledAt > v

\* the liveness half of C32: a task that is pending and due is eventually
\* deleted, cancelled, sent or failed, or has its scheduledAt advanced
C32_DueTaskHandled ==
    \A id \in Ids, v \in DueTimes : DueAt(id, v) ~> Handled(id, v)

\* C32: with the timer firing and the transport answering, every pending
\* task whose scheduledAt has passed is eventually executed: it ends
\* deleted, cancelled, sent or failed, or with its scheduledAt advanced; and
\* a once task whose sends all succeeded, and which was not cancelled, ends
\* with status sent, sendCount 1 and one success record in the history.
C32_DueTasksExecuted ==
    /\ C32_DueTaskHandled
    /\ [](\A id \in Ids :
            (/\ Stored(scheduledEmails, id)
             /\ TaskOf(scheduledEmails, id).scheduleType = "once"
             /\ TaskOf(scheduledEmails, id).status # "cancelled"
             /\ execs = <<>>
             /\ \A k \in 1..Len(history) : history[k].status = "success"
             /\ SuccessCount(history, id) >= 1) =>
                /\ TaskOf(scheduledEmails, id).status = "sent"
                /\ TaskOf(scheduledEmails, id).sendCount = 1
                /\ SuccessCount(history, id) = 1)

\* ------------------------------------------------------------------ C33
\* the calendar month, counted from year 0, of the local date of instant t
MonthOf(t) ==
    LET c == CivilFromDays(ToLocal(tz, t) \div MinutesPerDay)
    IN  c[1] * 12 + c[2] - 1

\* the local time of day of instant t
TimeOfDay(t) == ToLocal(tz, t) % MinutesPerDay

\* C33: after a successful execution of a monthly task the stored
\* scheduledAt falls in the calendar month that follows the month of the
\* previous scheduledAt, at the same time of day, whatever the day of the
\* month.
C33_MonthlyNextMonth ==
    [][\A i \in 1..Len(execs) :
        (/\ Complete(i, TRUE)
         /\ Succeeds(execs[i].email, TRUE)
         /\ execs[i].email.scheduleType = "monthly"
         /\ Stored(scheduledEmails', execs[i].id)) =>
            LET T == execs[i].email.scheduledAt
                n == TaskOf(scheduledEmails', execs[i].id).scheduledAt
            IN  /\ MonthOf(n) = MonthOf(T) + 1
                /\ ~Skipped(tz, ToLocal(tz, n)) => TimeOfDay(n) = TimeOfDay(T)]_vars

\* ------------------------------------------------------------------ C34
\* C34: the completion of an execution of one task, whether the send
\* succeeded, failed or the next run could not be computed, leaves the
\* stored record of every other task as it was, whatever else is in flight.
C34_CompletionLeavesOthers ==
    [][\A i \in 1..Len(execs), sent \in BOOLEAN, b \in 1..MaxSiblings :
        (/\ Complete(i, sent)
         /\ b # execs[i].id
         /\ Stored(scheduledEmails, b)) =>
            /\ Stored(scheduledEmails', b)
            /\ TaskOf(scheduledEmails', b) = TaskOf(scheduledEmails, b)
            /\ FindIndex(scheduledEmails', b) = FindIndex(scheduledEmails, b)]_vars

\* the execution of one task has completed and is stored while the execution
\* of another, dispatched by the checker, is still awaiting the transport
C34_Witness ==
    /\ dispatched = 2
    /\ Len(execs) = 1
    /\ execs[1].by = "tick"
    /\ Stored(scheduledEmails, execs[1].id)
    /\ TaskOf(scheduledEmails, execs[1].id) = execs[1].email
    /\ \E a \in 1..Len(scheduledEmails) :
          /\ scheduledEmails[a].id # execs[1].id
          /\ scheduledEmails[a].sendCount = 1
          /\ scheduledEmails[a].lastSentAt = now
          /\ SuccessCount(history, scheduledEmails[a].id) = 1

\* ------------------------------------------------------------------ C35
\* C35: the completion of an execution keeps the fields of its task that an
\* update wrote while the execution was awaiting the transport: the cap and
\* the interval it stores are the ones in the store, not the ones of the
\* snapshot the execution started from.
C35_UpdateSurvivesCompletion ==
    [][\A i \in 1..Len(execs), sent \in BOOLEAN :
        (/\ Complete(i, sent)
         /\ Stored(scheduledEmails, execs[i].id)) =>
            LET before == TaskOf(scheduledEmails, execs[i].id)
                after == TaskOf(scheduledEmails', execs[i].id)
            IN  /\ after.maxSendCount = before.maxSendCount
                /\ after.intervalMinutes = before.intervalMinutes]_vars

\* ------------------------------------------------------------------ C36
\* C36: the sendCount of every stored task is the number of success records
\* of its scheduled sends in the history.
C36_SendCountIsSuccessCount ==
    \A n \in 1..Len(scheduledEmails) :
        scheduledEmails[n].sendCount = SuccessCount(history, scheduledEmails[n].id)

\* ------------------------------------------------------------------ C37
\* C37: while the plugin runs, a manual execution of a stored task is always
\* possible, whatever the status of the task and whether or not its
\* scheduledAt has been reached: the pending-and-due filter is the
\* checker's alone.
C37_ExecuteNowUnfiltered ==
    \A id \in Ids :
        (ctx /\ dispatched < MaxExec /\ Stored(scheduledEmails, id))
            => ENABLED ExecuteNow(id)

\* two manual executions are in flight, one started while the task was
\* pending and not yet due, the other after the task had been cancelled
C37_Witness ==
    /\ Len(execs) = 2
    /\ execs[1].by = "now"
    /\ execs[1].email.status = "pending"
    /\ ~IsDue(execs[1].email, now)
    /\ execs[2].by = "now"
    /\ execs[2].email.status = "cancelled"

\* ------------------------------------------------------------------ C38
\* C38: when the write of the task file that follows a successful send
\* fails, the send is on record in the history but the store is as it was
\* before the completion, so a task that was pending and due still is; and
\* the next tick of the checker dispatches such a task again.
C38_FailedWriteResends ==
    [][/\ \A i \in 1..Len(execs) :
            (Complete(i, TRUE) /\ ctx /\ ~taskWritable) =>
                /\ scheduledEmails' = scheduledEmails
                /\ SuccessCount(history', execs[i].id)
                      = SuccessCount(history, execs[i].id) + 1
                /\ \A n \in 1..Len(scheduledEmails) :
                      IsDue(scheduledEmails[n], now) => IsDue(scheduledEmails'[n], now')
       /\ Tick => \A n \in 1..Len(scheduledEmails) :
                      (/\ IsDue(scheduledEmails[n], now)
                       /\ SuccessCount(history, scheduledEmails[n].id)
                              > scheduledEmails[n].sendCount) =>
                          \E k \in (Len(execs) + 1)..Len(execs') :
                              execs'[k].email = scheduledEmails[n]]_vars

\* two sends of the task succeeded, one after the other, and the store
\* still holds the task as pending with sendCount 0
C38_Witness ==
    /\ ~taskWritable
    /\ execs = <<>>
    /\ dispatched = 2
    /\ \E n \in 1..Len(scheduledEmails) :
          /\ scheduledEmails[n].status = "pending"
          /\ scheduledEmails[n].sendCount = 0
          /\ scheduledEmails[n].scheduleType = "once"
          /\ SuccessCount(history, scheduledEmails[n].id) = 2

\* ------------------------------------------------------------------ C39
\* the values of weekday and of dayOfMonth a task may carry
WeekdayValues == {Undefined, Null} \cup 0..6

DayOfMonthValues == {Undefined, Null, 1, 15, 28, 31}

\* C39: the scheduledAt stored after a successful execution is the next run
\* of every task that differs from the executed one only in weekday or
\* dayOfMonth; a weekly task keeps the weekday of its scheduledAt, and a
\* monthly task whose scheduledAt is on day 1..28 keeps that day, whatever
\* the weekday and day of the month configured.
C39_NextRunIgnoresWeekdayAndDay ==
    [][\A i \in 1..Len(execs) :
        (/\ Complete(i, TRUE)
         /\ Succeeds(execs[i].email, TRUE)
         /\ Stored(scheduledEmails', execs[i].id)) =>
            LET email == execs[i].email
                next == TaskOf(scheduledEmails', execs[i].id).scheduledAt
            IN  /\ \A w \in WeekdayValues, d \in DayOfMonthValues :
                      calculateNextScheduledTime(
                          [email EXCEPT !.weekday = w, !.dayOfMonth = d], now) = next
                /\ email.scheduleType = "weekly" =>
                      WeekdayOf(next) = WeekdayOf(email.scheduledAt)
                /\ (email.scheduleType = "monthly" /\ DayOf(email.scheduledAt) <= 28) =>
                      DayOf(next) = DayOf(email.scheduledAt)]_vars

\* a weekly task configured for Sunday whose scheduledAt is not a Sunday has
\* been executed and still is not on a Sunday
C39_Witness ==
    \E n \in 1..Len(scheduledEmails) :
        /\ scheduledEmails[n].scheduleType = "weekly"
        /\ scheduledEmails[n].weekday = 0
        /\ scheduledEmails[n].sendCount = 1
        /\ scheduledEmails[n].status = "pending"
        /\ WeekdayOf(scheduledEmails[n].scheduledAt) = 6

\* ------------------------------------------------------------------ C40
\* the accounts flagged as default
Flagged(cfg) == {n \in 1..Len(cfg.emailAccounts) : cfg.emailAccounts[n].isDefault}

\* C40: at most one account is flagged isDefault, and defaultAccountId is
\* unset or the id of a stored account that is flagged isDefault.
C40_DefaultAccountConsistent ==
    /\ Cardinality(Flagged(config)) <= 1
    /\ \/ config.defaultAccountId = ""
       \/ \E n \in Flagged(config) :
             config.emailAccounts[n].id = config.defaultAccountId

====
